---- MODULE Spec2Model ----
(***************************************************************************)
(* The identity core of keystone (keystone/logic/service.py) over the      *)
(* repository adapters (keystone/backends/sqlalchemy/api): token issue,    *)
(* reuse, validation and revocation, the admin / service-admin predicates  *)
(* and the tenant, user and grant operations they guard.                   *)
(*                                                                         *)
(* Every request handler runs as one step.  Time is counted in units of    *)
(* twelve hours, so that timedelta(days=1) is TTL = 2 units.  Identifiers  *)
(* are strings; Python's None is the value None below, which differs from  *)
(* every string a caller can send (in particular from the text "None").    *)
(***************************************************************************)
EXTENDS Integers, Sequences, FiniteSets, TLC

\* ------------------------------------------------------------------ bounds
MaxTime == 3
MaxUuid == 3
MaxSerial == 2
MaxLimit == 2
MaxTrail == 3

\* ------------------------------------------------------- program constants
\* timedelta(days=1), in units of twelve hours
TTL == 2

ADMIN_ROLE_NAME == "Admin"
SERVICE_ADMIN_ROLE_NAME == "KeystoneServiceAdmin"

\* ------------------------------------------------------------ Python values
None == "<None>"

\* the truth value of an identifier or name: None and '' are false
Truthy(v) == v # None /\ v # ""

\* unicode(x): the text of x; unicode(None) is the text u'None'
unicode(v) == IF v = None THEN "None" ELSE v

\* s.startswith(p)
startswith(s, p) == Len(p) <= Len(s) /\ SubSeq(s, 1, Len(p)) = p

\* len(s.split(":")) > 1
HasColon(s) == \E i \in 1..Len(s) : SubSeq(s, i, i) = ":"

\* s.split(":")[0]
SplitHead(s) ==
    IF HasColon(s)
    THEN LET i == CHOOSE i \in 1..Len(s) : /\ SubSeq(s, i, i) = ":"
                                           /\ \A j \in 1..(i - 1) : SubSeq(s, j, j) # ":"
         IN SubSeq(s, 1, i - 1)
    ELSE s

\* the n-th integer key of the catalog and role tables, as the id of a row
Key(table, n) == table \o ToString(n)

\* str(uuid.uuid4()) / uuid.uuid4().hex: the n-th identifier drawn
Uuid(prefix, n) == prefix \o ToString(n)

VARIABLES
    now,                     \* datetime.now()
    tenants,                 \* tenants table: id -> [name, enabled]
    users,                   \* users table: id -> [name, password, enabled, tenant_id]
    roles,                   \* roles table: id -> [name, service_id]
    grants,                  \* user_roles table: set of [user_id, role_id, tenant_id, n]
    tokens,                  \* token table: id -> [user_id, tenant_id, expires]
    credentials,             \* credentials table: set of [type, key, secret, user_id, tenant_id]
    services,                \* services table: id -> [name, type, owner_id]
    endpoint_templates,      \* endpoint_templates table: id -> [service_id]
    endpoints,               \* endpoints table: id -> [tenant_id, endpoint_template_id]
    serial,                  \* per table, the number of integer keys it gave out
    ADMIN_ROLE_ID,           \* backends.ADMIN_ROLE_ID
    SERVICE_ADMIN_ROLE_ID,   \* backends.SERVICE_ADMIN_ROLE_ID
    uuid,                    \* number of identifiers drawn so far
    result,                  \* the last request and its outcome
    issued,                  \* observer: latest successful authentication per (user, scope)
    threads,                 \* request handlers between two repository calls: thread -> frame
    protocol,                \* the AuthProtocol middleware object: its fields
    env,                     \* the WSGI environ of the request the middleware handled last
    proxy_headers,           \* the headers the middleware prepared for a remote service
    downstream,              \* what the downstream service received of that request and answered
    response,                \* what the middleware returned to the client
    request,                 \* observer: the environ of that request as the client sent it
    asked                    \* observer: what the identity service answered for that request

catalog == <<services, endpoint_templates, endpoints, serial>>
store == <<tenants, users, roles, grants, tokens, credentials, catalog>>
cache == <<ADMIN_ROLE_ID, SERVICE_ADMIN_ROLE_ID>>
middleware == <<protocol, env, proxy_headers, downstream, response, request, asked>>
vars == <<now, tenants, users, roles, grants, tokens, credentials,
          services, endpoint_templates, endpoints, serial,
          ADMIN_ROLE_ID, SERVICE_ADMIN_ROLE_ID, uuid, result, issued, threads,
          protocol, env, proxy_headers, downstream, response, request, asked>>

\* the request-handler threads and the frame of a thread between requests
Threads == {"w1", "w2"}
Idle == [pc |-> "idle"]

\* ------------------------------------------------- repository adapters
\* TokenAPI.get: the row with that id, or None
TokenAPI_get(id) == IF id \in DOMAIN tokens THEN id ELSE None

\* TokenAPI.create: save a row
TokenAPI_create(id, user_id, tenant_id, expires) ==
    [k \in DOMAIN tokens \cup {id} |->
        IF k = id THEN [user_id |-> user_id, tenant_id |-> tenant_id, expires |-> expires]
        ELSE tokens[k]]

\* TokenAPI.delete: get(id) hands back the keystone.models.Token that
\* to_model builds, not the mapped row, so session.delete(token_ref) raises
\* UnmappedInstanceError inside session.begin() and the row stays
TokenAPI_delete(id) == "UnmappedInstanceError"

\* TokenAPI.get_for_user_by_tenant ordered by "expires asc"
TokenAPI_get_for_user_by_tenant_oldest(user_id, tenant_id) ==
    LET rows == {k \in DOMAIN tokens : /\ tokens[k].user_id = user_id
                                       /\ tokens[k].tenant_id = tenant_id}
    IN {k \in rows : \A j \in rows : tokens[k].expires <= tokens[j].expires}

\* TokenAPI.get_for_user_by_tenant: filter_by(user_id, tenant_id),
\* order_by("expires desc"), first().  The rows that may come first are those
\* with the greatest expires; the empty set stands for None.
TokenAPI_get_for_user_by_tenant(user_id, tenant_id) ==
    LET rows == {k \in DOMAIN tokens : /\ tokens[k].user_id = user_id
                                       /\ tokens[k].tenant_id = tenant_id}
    IN {k \in rows : \A j \in rows : tokens[j].expires <= tokens[k].expires}

\* TenantAPI.get (by uid)
TenantAPI_get(id) == IF id \in DOMAIN tenants THEN id ELSE None

\* get_by_name that finds no row
TenantAPI_get_by_name_none(name) == None

\* TenantAPI.get_by_name
TenantAPI_get_by_name(name) ==
    IF \E t \in DOMAIN tenants : tenants[t].name = name
    THEN CHOOSE t \in DOMAIN tenants : tenants[t].name = name
    ELSE None

\* is_empty without the query on user_roles
TenantAPI_is_empty_of_users(id) == ~ \E u \in DOMAIN users : users[u].tenant_id = id

\* TenantAPI.is_empty: no user_roles row and no users row has this tenant_id
TenantAPI_is_empty(id) ==
    /\ ~ \E g \in grants : g.tenant_id = id
    /\ ~ \E u \in DOMAIN users : users[u].tenant_id = id

\* TenantAPI.create
TenantAPI_create(id, name, enabled) ==
    [t \in DOMAIN tenants \cup {id} |->
        IF t = id THEN [name |-> name, enabled |-> enabled] ELSE tenants[t]]

\* TenantAPI.update
TenantAPI_update(id, name, enabled) ==
    [tenants EXCEPT ![id] = [name |-> name, enabled |-> enabled]]

\* TenantAPI.delete
TenantAPI_delete(id) == [t \in DOMAIN tenants \ {id} |-> tenants[t]]

\* CredentialsAPI.to_model: the tenant uid of the row, None when no tenant
\* row has that key
CredentialsAPI_to_model(c) ==
    [c EXCEPT !.tenant_id = IF c.tenant_id \in DOMAIN tenants THEN c.tenant_id ELSE None]

\* CredentialsAPI.get_by_access: filter_by(type="EC2", key=access).first();
\* the empty set stands for None
CredentialsAPI_get_by_access(access) ==
    {CredentialsAPI_to_model(c) : c \in {d \in credentials : d.type = "EC2" /\ d.key = access}}

\* UserAPI.get
UserAPI_get(id) == IF id \in DOMAIN users THEN id ELSE None

\* UserAPI.get_by_name
UserAPI_get_by_name(name) ==
    IF \E u \in DOMAIN users : users[u].name = name
    THEN CHOOSE u \in DOMAIN users : users[u].name = name
    ELSE None

\* UserAPI.get_by_tenant: the user if the tenant is the user's own tenant or
\* the user holds a grant on it
UserAPI_get_by_tenant(id, tenant_id) ==
    IF /\ id \in DOMAIN users
       /\ \/ users[id].tenant_id = tenant_id
          \/ \E g \in grants : g.user_id = id /\ g.tenant_id = tenant_id
    THEN id ELSE None

\* UserAPI.check_password
UserAPI_check_password(id, password) == users[id].password = password

\* RoleAPI.get
RoleAPI_get(id) == IF id \in DOMAIN roles THEN id ELSE None

\* RoleAPI.get_by_name
RoleAPI_get_by_name(name) ==
    IF \E r \in DOMAIN roles : roles[r].name = name
    THEN CHOOSE r \in DOMAIN roles : roles[r].name = name
    ELSE None

\* RoleAPI.ref_get_all_global_roles
RoleAPI_ref_get_all_global_roles(user_id) ==
    {g \in grants : g.user_id = user_id /\ g.tenant_id = None}

\* RoleAPI.ref_get_all_tenant_roles
RoleAPI_ref_get_all_tenant_roles(user_id, tenant_id) ==
    {g \in grants : g.user_id = user_id /\ g.tenant_id = tenant_id}

\* RoleAPI.ref_get_by_user: the empty set stands for None
RoleAPI_ref_get_by_user(user_id, role_id, tenant_id) ==
    {g \in grants : g.user_id = user_id /\ g.role_id = role_id /\ g.tenant_id = tenant_id}

\* UserAPI.create
UserAPI_create(id, name, password, enabled, tenant_id) ==
    [u \in DOMAIN users \cup {id} |->
        IF u = id THEN [name |-> name, password |-> password, enabled |-> enabled,
                        tenant_id |-> tenant_id]
        ELSE users[u]]

\* UserAPI.update with values = {'enabled': enabled}
UserAPI_update_enabled(id, enabled) == [users EXCEPT ![id].enabled = enabled]

\* UserAPI.update with values = {'tenant_id': tenant_id}
UserAPI_update_tenant_id(id, tenant_id) == [users EXCEPT ![id].tenant_id = tenant_id]

\* UserAPI.update with values = {'email': email, 'name': name}
UserAPI_update_name(id, name) == [users EXCEPT ![id].name = name]

\* UserAPI.update with values = {'password': password, 'name': name}
UserAPI_update_password_name(id, password, name) ==
    [users EXCEPT ![id].password = password, ![id].name = name]

\* UserAPI.delete: the user row
UserAPI_delete(id) == [u \in DOMAIN users \ {id} |-> users[u]]

\* UserAPI.delete_tenant_user: the user's grants on the tenant (and the user
\* row, UserAPI_delete)
UserAPI_delete_tenant_user(id, tenant_id) ==
    {g \in grants : ~ (g.user_id = id /\ g.tenant_id = tenant_id)}

\* The primary key of a user_roles row is an opaque integer; the model tells
\* the rows of one (user_id, role_id, tenant_id) apart by n, the least number
\* no stored row of that triple carries.
NextId(rows) == CHOOSE i \in 1..(Cardinality(rows) + 1) :
                    i \notin rows /\ \A j \in 1..(i - 1) : j \in rows

\* UserAPI.user_role_add: save a row
UserAPI_user_role_add(user_id, role_id, tenant_id) ==
    grants \cup {[user_id |-> user_id, role_id |-> role_id, tenant_id |-> tenant_id,
                  n |-> NextId({g.n : g \in RoleAPI_ref_get_by_user(user_id, role_id, tenant_id)})]}

\* RoleAPI.ref_delete
RoleAPI_ref_delete(ref) == grants \ {ref}

\* RoleAPI.create: save a row
RoleAPI_create(id, name, service_id) ==
    [r \in DOMAIN roles \cup {id} |->
        IF r = id THEN [name |-> name, service_id |-> service_id] ELSE roles[r]]

\* RoleAPI.delete: the role row
RoleAPI_delete(id) == [r \in DOMAIN roles \ {id} |-> roles[r]]

\* RoleAPI.get_by_service
RoleAPI_get_by_service(service_id) == {r \in DOMAIN roles : roles[r].service_id = service_id}

\* RoleAPI.ref_get_by_role
RoleAPI_ref_get_by_role(role_id) == {g \in grants : g.role_id = role_id}

\* ServiceAPI.get
ServiceAPI_get(id) == IF id \in DOMAIN services THEN id ELSE None

\* get_by_name that finds no row
ServiceAPI_get_by_name_none(name) == None

\* ServiceAPI.get_by_name: filter_by(name=name).first()
ServiceAPI_get_by_name(name) ==
    IF \E k \in DOMAIN services : services[k].name = name
    THEN CHOOSE k \in DOMAIN services : services[k].name = name
    ELSE None

\* ServiceAPI.get_by_name_and_type: filter_by(name=name).filter_by(type=type).first()
ServiceAPI_get_by_name_and_type(name, type) ==
    IF \E k \in DOMAIN services : services[k].name = name /\ services[k].type = type
    THEN CHOOSE k \in DOMAIN services : services[k].name = name /\ services[k].type = type
    ELSE None

\* ServiceAPI.create: save a row
ServiceAPI_create(id, name, type, owner_id) ==
    [k \in DOMAIN services \cup {id} |->
        IF k = id THEN [name |-> name, type |-> type, owner_id |-> owner_id] ELSE services[k]]

\* ServiceAPI.delete: the row itself is queried and deleted
ServiceAPI_delete(id) == [k \in DOMAIN services \ {id} |-> services[k]]

\* EndpointTemplateAPI.get
EndpointTemplateAPI_get(id) == IF id \in DOMAIN endpoint_templates THEN id ELSE None

\* EndpointTemplateAPI.create: save a row
EndpointTemplateAPI_create(id, service_id) ==
    [k \in DOMAIN endpoint_templates \cup {id} |->
        IF k = id THEN [service_id |-> service_id] ELSE endpoint_templates[k]]

\* EndpointTemplateAPI.delete: the template row
EndpointTemplateAPI_delete(id) ==
    [k \in DOMAIN endpoint_templates \ {id} |-> endpoint_templates[k]]

\* EndpointTemplateAPI.get_by_service
EndpointTemplateAPI_get_by_service(service_id) ==
    {k \in DOMAIN endpoint_templates : endpoint_templates[k].service_id = service_id}

\* EndpointTemplateAPI.endpoint_add: save a row
EndpointTemplateAPI_endpoint_add(id, tenant_id, endpoint_template_id) ==
    [k \in DOMAIN endpoints \cup {id} |->
        IF k = id THEN [tenant_id |-> tenant_id, endpoint_template_id |-> endpoint_template_id]
        ELSE endpoints[k]]

\* EndpointTemplateAPI.endpoint_get_by_endpoint_template
EndpointTemplateAPI_endpoint_get_by_endpoint_template(endpoint_template_id) ==
    {k \in DOMAIN endpoints : endpoints[k].endpoint_template_id = endpoint_template_id}

\* EndpointTemplateAPI.endpoint_delete: the endpoint row
EndpointTemplateAPI_endpoint_delete(id) == [k \in DOMAIN endpoints \ {id} |-> endpoints[k]]

\* -------------------------------------------- keystone/logic/service.py
\* validate_tenant without the enabled test
validate_tenant_any(dtenant) ==
    IF dtenant = None THEN "Unauthorized" ELSE "ok"

\* validate_tenant: "ok" or the fault raised
validate_tenant(dtenant) ==
    IF dtenant = None THEN "Unauthorized"
    ELSE IF ~ tenants[dtenant].enabled THEN "TenantDisabled"
    ELSE "ok"

\* validate_tenant_by_id that takes the id without looking the tenant up
validate_tenant_by_id_unread(tenant_id) ==
    IF ~ Truthy(tenant_id) THEN "Unauthorized" ELSE "ok"

\* validate_tenant_by_id
validate_tenant_by_id(tenant_id) ==
    IF ~ Truthy(tenant_id) THEN "Unauthorized"
    ELSE validate_tenant(TenantAPI_get(tenant_id))

\* validate_tenant_by_name
\* validate_tenant_by_name that does not read the tenant
validate_tenant_by_name_unread(tenant_name) ==
    IF ~ Truthy(tenant_name) THEN "Unauthorized" ELSE "ok"

validate_tenant_by_name(tenant_name) ==
    IF ~ Truthy(tenant_name) THEN "Unauthorized"
    ELSE validate_tenant(TenantAPI_get_by_name(tenant_name))

\* get_token_info: (token, user); user is None when the token is None or the
\* token's user row is gone
get_token_info(token_id) ==
    LET token == IF Truthy(token_id) THEN TokenAPI_get(token_id) ELSE None
        user  == IF token # None THEN UserAPI_get(tokens[token].user_id) ELSE None
    IN [token |-> token, user |-> user]

\* the fault of validate_token for a token that is not stored
not_found_fault(is_check_token) ==
    IF is_check_token THEN "ItemNotFound" ELSE "Unauthorized"

\* expired_fault that ignores is_check_token
expired_fault_forbidden(is_check_token) == "Forbidden"

\* the fault of validate_token for an expired token
expired_fault(is_check_token) ==
    IF is_check_token THEN "ItemNotFound" ELSE "Forbidden"

\* an expiry test that never fires
token_expired_never(token) == FALSE

\* token.expires < datetime.now()
token_expired(token) == tokens[token].expires < now

\* belongs_to and unicode(token.tenant_id) != unicode(belongs_to)
belongs_to_differs(token, belongs_to) ==
    Truthy(belongs_to) /\ unicode(tokens[token].tenant_id) # unicode(belongs_to)

\* validate_token: "ok" for (token, user), or the fault raised.  A token whose
\* user row is gone makes user.enabled fail on None (AttributeError).
validate_token(token_id, belongs_to, is_check_token) ==
    IF ~ Truthy(token_id) THEN "Unauthorized"
    ELSE LET info == get_token_info(token_id) IN
      IF info.token = None THEN not_found_fault(is_check_token)
      ELSE IF token_expired(info.token) THEN expired_fault(is_check_token)
      ELSE IF info.user = None THEN "AttributeError"
      ELSE IF ~ users[info.user].enabled THEN "UserDisabled"
      ELSE IF /\ Truthy(users[info.user].tenant_id)
              /\ validate_tenant_by_id(users[info.user].tenant_id) # "ok"
      THEN validate_tenant_by_id(users[info.user].tenant_id)
      ELSE IF /\ Truthy(tokens[info.token].tenant_id)
              /\ validate_tenant_by_id(tokens[info.token].tenant_id) # "ok"
      THEN validate_tenant_by_id(tokens[info.token].tenant_id)
      ELSE IF belongs_to_differs(info.token, belongs_to) THEN "Unauthorized"
      ELSE "ok"

\* initialize_admin_role_identifiers: the two cached ids after the call
initialize_admin_role_identifiers ==
    [svc |-> IF SERVICE_ADMIN_ROLE_ID = None
             THEN RoleAPI_get_by_name(SERVICE_ADMIN_ROLE_NAME)
             ELSE SERVICE_ADMIN_ROLE_ID,
     adm |-> IF ADMIN_ROLE_ID = None
             THEN RoleAPI_get_by_name(ADMIN_ROLE_NAME)
             ELSE ADMIN_ROLE_ID]

\* has_role over every grant of the user, whatever its tenant
has_role_any_tenant(user, role) ==
    \E role_ref \in {g \in grants : g.user_id = user} : role_ref.role_id = role

\* has_role: some global grant of the user is for that role
has_role(user, role) ==
    \E role_ref \in RoleAPI_ref_get_all_global_roles(user) :
        role_ref.role_id = role /\ role_ref.tenant_id = None

\* has_admin_role: "True", "False", or the fault validate_token raises
has_admin_role(token_id) ==
    LET v == validate_token(token_id, None, FALSE) IN
    IF v # "ok" THEN v
    ELSE IF has_role(tokens[token_id].user_id, initialize_admin_role_identifiers.adm)
         THEN "True" ELSE "False"

\* has_service_admin_role: "True", "False", or the fault validate_token raises
has_service_admin_role(token_id) ==
    LET v == validate_token(token_id, None, FALSE) IN
    IF v # "ok" THEN v
    ELSE IF has_role(tokens[token_id].user_id, initialize_admin_role_identifiers.svc)
         THEN "True" ELSE has_admin_role(token_id)

\* validate_service_admin_token in place of validate_admin_token
validate_admin_token_lax(token_id) ==
    LET r == has_service_admin_role(token_id) IN
    IF r = "True" THEN "ok" ELSE IF r = "False" THEN "Unauthorized" ELSE r

\* validate_admin_token: "ok" or the fault raised
validate_admin_token(token_id) ==
    LET r == has_admin_role(token_id) IN
    IF r = "True" THEN "ok" ELSE IF r = "False" THEN "Unauthorized" ELSE r

\* validate_service_admin_token: "ok" or the fault raised
validate_service_admin_token(token_id) ==
    LET r == has_service_admin_role(token_id) IN
    IF r = "True" THEN "ok"
    ELSE IF r # "False" THEN r
    ELSE LET a == has_admin_role(token_id) IN
         IF a = "True" THEN "ok" ELSE IF a = "False" THEN "Unauthorized" ELSE a

\* the cached role ids after a request that presented token_id to one of the
\* predicates above: initialize_admin_role_identifiers runs once
\* validate_token has returned
CacheAfter(token_id) ==
    IF validate_token(token_id, None, FALSE) = "ok"
    THEN initialize_admin_role_identifiers
    ELSE [svc |-> SERVICE_ADMIN_ROLE_ID, adm |-> ADMIN_ROLE_ID]

\* get_auth_data up to the call of has_service_admin_role: the tenant row,
\* the user row and every role row of the user's grants are dereferenced
get_auth_data_rows(token_id) ==
    LET dtoken == tokens[token_id] IN
    /\ Truthy(dtoken.tenant_id) => TenantAPI_get(dtoken.tenant_id) # None
    /\ UserAPI_get(dtoken.user_id) # None
    /\ Truthy(dtoken.tenant_id) =>
          \A ref \in RoleAPI_ref_get_all_tenant_roles(dtoken.user_id, dtoken.tenant_id) :
              RoleAPI_get(ref.role_id) # None
    /\ \A ref \in RoleAPI_ref_get_all_global_roles(dtoken.user_id) :
          RoleAPI_get(ref.role_id) # None

\* get_auth_data: "ok" for an AuthData, or the fault raised
get_auth_data(token_id) ==
    IF ~ get_auth_data_rows(token_id) THEN "AttributeError"
    ELSE LET r == has_service_admin_role(token_id) IN
         IF r \in {"True", "False"} THEN "ok" ELSE r

\* ------------------------------------ keystone/middleware/auth_token.py
\* d.get(key, default)
dict_get(d, key, default) == IF key \in DOMAIN d THEN d[key] ELSE default

\* d[key] = value
dict_set(d, key, value) ==
    [k \in DOMAIN d \cup {key} |-> IF k = key THEN value ELSE d[k]]

\* int(s) of a decimal text of a configuration file
Digit(c) == CHOOSE n \in 0..9 : ToString(n) = c
RECURSIVE int(_)
int(s) ==
    IF Len(s) = 1 THEN Digit(s)
    ELSE 10 * int(SubSeq(s, 1, Len(s) - 1)) + Digit(SubSeq(s, Len(s), Len(s)))

\* sep.join(seq)
RECURSIVE join(_, _)
join(sep, seq) ==
    IF Len(seq) = 0 THEN ""
    ELSE IF Len(seq) = 1 THEN seq[1]
    ELSE seq[1] \o sep \o join(sep, Tail(seq))

\* "Keystone uri='%s'" % auth_location
KeystoneUri(auth_location) == "Keystone uri='" \o auth_location \o "'"

\* AuthProtocol.__init__ (_init_protocol_common, _init_protocol): the fields
\* that __call__ reads; app is None for a proxy to a remote service.
\* self.expanded, which __call__ sets and nothing reads, is left out
AuthProtocol(app, conf) ==
    [app |-> app,
     service_pass |-> dict_get(conf, "service_pass", None),
     delay_auth_decision |-> IF "delay_auth_decision" \in DOMAIN conf
                             THEN int(conf["delay_auth_decision"]) ELSE 0,
     auth_location |-> dict_get(conf, "auth_uri",
                                dict_get(conf, "auth_protocol", "https") \o "://"
                                   \o conf["auth_host"] \o ":"
                                   \o ToString(int(conf["auth_port"]))),
     admin_token |-> dict_get(conf, "admin_token", None)]

\* the loop of __call__ over proxy_headers = env.copy(): a key that begins
\* with HTTP_ is stored again without the prefix and deleted.  The dict is
\* changed while iterkeys() walks it, so the walk can pass a key over:
\* skipped is the set of keys it missed
prepare_headers(e, skipped) ==
    LET renamed(h) == IF startswith(h, "HTTP_") /\ h \notin skipped
                      THEN SubSeq(h, 6, Len(h)) ELSE h
    IN [k \in {renamed(h) : h \in DOMAIN e} |->
          IF \E h \in DOMAIN e : h # k /\ renamed(h) = k
          THEN e[CHOOSE h \in DOMAIN e : h # k /\ renamed(h) = k]
          ELSE e[k]]

\* AuthProtocol._get_claims
get_claims(e) == dict_get(e, "HTTP_X_AUTH_TOKEN", dict_get(e, "HTTP_X_STORAGE_TOKEN", None))

\* _decorate_request that leaves the WSGI environ alone
decorate_request_headers_only(index, value, hs) ==
    [env |-> hs.env, proxy_headers |-> dict_set(hs.proxy_headers, index, value)]

\* AuthProtocol._decorate_request on hs = [env, proxy_headers]
decorate_request(index, value, hs) ==
    [env |-> dict_set(hs.env, "HTTP_" \o index, value),
     proxy_headers |-> dict_set(hs.proxy_headers, index, value)]

\* AuthProtocol._verify_claims up to the test of the status:
\* GET /v2.0/tokens/<claims> answered validation
verify_claims_status(validation, catalog_info) ==
    [ok |-> startswith(ToString(validation.status), "20"), status |-> validation.status]

\* AuthProtocol._verify_claims after the test of the status: the claims
\* taken from the validation response, and the capabilities from it or from
\* the first compute endpoint of GET /v2.0/tokens/<claims>/endpoints that
\* has some (catalog_info is empty when that answer holds no endpoints)
verified_claims(validation, catalog_info) ==
    LET access == validation.token_info.access
        scoped == "tenant" \in DOMAIN access.token
        withcaps == {i \in 1..Len(catalog_info) :
                        /\ catalog_info[i].type = "compute"
                        /\ "RAX-RBAC-capabilities" \in DOMAIN catalog_info[i]}
    IN [user |-> [id |-> access.user.id, name |-> access.user.name],
        tenant |-> [id |-> IF scoped THEN access.token.tenant.id
                           ELSE dict_get(access.user, "tenantId", None),
                    name |-> IF scoped THEN access.token.tenant.name
                             ELSE dict_get(access.user, "tenantName", None)],
        roles |-> [i \in 1..Len(access.user.roles) |-> access.user.roles[i].name],
        capabilities |->
            IF withcaps # {}
            THEN catalog_info[CHOOSE i \in withcaps : \A j \in withcaps : i <= j]["RAX-RBAC-capabilities"]
            ELSE dict_get(access.token, "capabilities", <<>>)]

\* the branch of validated claims without the mark of the status
confirm_request_unmarked(claims, hs) == decorate_request("X_USER_ID", claims.user.id, hs)

\* __call__, the branch of validated claims: the headers it decorates the
\* request with, in the code's order
confirm_request(claims, hs) ==
    LET names == join(",", claims.roles)
        h1 == decorate_request("X_IDENTITY_STATUS", "Confirmed", hs)
        h2 == decorate_request("X_AUTHORIZATION",
                               "Proxy {'id': " \o claims.user.id \o ", 'name': "
                                   \o claims.user.name \o "}", h1)
        h3 == decorate_request("X_TENANT_ID", claims.tenant.id, h2)
        h4 == decorate_request("X_TENANT_NAME", claims.tenant.name, h3)
        h5 == decorate_request("X_USER_ID", claims.user.id, h4)
        h6 == decorate_request("X_USER_NAME", claims.user.name, h5)
        h7 == decorate_request("X_ROLES", names, h6)
        h8 == decorate_request("X_TENANT", claims.tenant.id, h7)
        h9 == decorate_request("X_USER", claims.user.id, h8)
        h10 == decorate_request("X_ROLE", names, h9)
    IN IF Len(claims.capabilities) > 0
       THEN decorate_request("X_CAPABILITIES", join(",", claims.capabilities), h10)
       ELSE h10

\* _reject_request that answers without a challenge
reject_request_unchallenged ==
    [status |-> 401, body |-> "Authentication required", headerlist |-> << >>]

\* AuthProtocol._reject_request: HTTPUnauthorized with the challenge
reject_request ==
    [status |-> 401, body |-> "Authentication required",
     headerlist |-> << <<"WWW-Authenticate", KeystoneUri(protocol.auth_location)>> >>]

\* AuthProtocol._reject_claims: HTTPUnauthorized()
reject_claims == [status |-> 401, body |-> "", headerlist |-> << >>]

\* the middleware answers by itself: nothing goes downstream
Answer(hs, resp) ==
    /\ env' = hs.env
    /\ proxy_headers' = hs.proxy_headers
    /\ downstream' = [called |-> FALSE]
    /\ response' = resp

\* AuthProtocol._forward_request: to the WSGI component app, whose answer
\* service is returned as it is, or over HTTP to the remote service, whose
\* status and body are wrapped in a new Response
forward_request(hs, service) ==
    LET h == decorate_request("AUTHORIZATION", "Basic " \o protocol.service_pass, hs) IN
    /\ env' = h.env
    /\ proxy_headers' = h.proxy_headers
    /\ IF protocol.app # None
       THEN /\ downstream' = [called |-> TRUE, via |-> "app", headers |-> h.env,
                            answered |-> service]
            /\ response' = service
       ELSE /\ downstream' = [called |-> TRUE, via |-> "http", headers |-> h.proxy_headers,
                            answered |-> service]
            /\ response' =
                 IF service.status = 401 \/ service.status = 305
                 THEN [status |-> service.status, body |-> service.body,
                       headerlist |-> << <<"WWW_AUTHENTICATE",
                                           KeystoneUri(protocol.auth_location)>> >>]
                 ELSE [status |-> service.status, body |-> service.body,
                       headerlist |-> << >>]

\* the middleware has handled no request yet
NoRequest ==
    /\ env = << >>
    /\ proxy_headers = << >>
    /\ downstream = [called |-> FALSE]
    /\ response = [status |-> 0, body |-> "", headerlist |-> << >>]
    /\ request = << >>
    /\ asked = [called |-> FALSE]

\* filter_factory / app_factory: a middleware built from a configuration
Construct(app, conf) ==
    /\ protocol' = AuthProtocol(app, conf)
    /\ env' = << >>
    /\ proxy_headers' = << >>
    /\ downstream' = [called |-> FALSE]
    /\ response' = [status |-> 0, body |-> "", headerlist |-> << >>]
    /\ request' = << >>
    /\ asked' = [called |-> FALSE]
    /\ UNCHANGED <<now, store, cache, uuid, result, issued, threads>>

\* AuthProtocol.__call__ for a request with environ e; validation and
\* catalog_info are what the identity service answers when asked, service
\* what the downstream service answers when the request reaches it
Call(e, skipped, validation, catalog_info, service) ==
    LET hs == [env |-> e, proxy_headers |-> prepare_headers(e, skipped)]
        claims == get_claims(e)
        invalid == decorate_request("X_IDENTITY_STATUS", "Invalid", hs)
    IN
    /\ UNCHANGED <<now, store, cache, uuid, result, issued, threads, protocol>>
    /\ request' = e
    /\ asked' = IF ~ Truthy(claims) THEN [called |-> FALSE]
                ELSE IF ~ verify_claims_status(validation, catalog_info).ok
                THEN [called |-> TRUE, claims |-> claims, status |-> validation.status]
                ELSE [called |-> TRUE, claims |-> claims, status |-> validation.status,
                      token_info |-> validation.token_info, catalog_info |-> catalog_info]
    /\ IF ~ Truthy(claims)
       THEN IF protocol.delay_auth_decision # 0
            THEN forward_request(invalid, service)
            ELSE Answer(hs, reject_request)
       ELSE IF ~ verify_claims_status(validation, catalog_info).ok
       THEN IF protocol.delay_auth_decision # 0
            THEN forward_request(invalid, service)
            ELSE Answer(hs, reject_claims)
       ELSE forward_request(confirm_request(verified_claims(validation, catalog_info), hs),
                            service)

\* ---- what the middleware is given
\* paste configurations: without options, and with auth_uri and
\* delay_auth_decision off and on
Confs ==
    {[k \in {"auth_host", "auth_port", "admin_token", "service_pass"} \cup opt |->
         IF k = "auth_host" THEN "id.example.com"
         ELSE IF k = "auth_port" THEN "5001"
         ELSE IF k = "admin_token" THEN "999888777666"
         ELSE IF k = "service_pass" THEN "dTpw"
         ELSE IF k = "auth_uri" THEN "https://id.example.com:5000"
         ELSE delay] :
       opt \in {{}, {"auth_uri", "delay_auth_decision"}}, delay \in {"0", "1"}}

\* a request without token, and what a client can add to it: a token in
\* X-Auth-Token or X-Storage-Token, and identity headers of its own making
BareEnv == [k \in {"REQUEST_METHOD", "PATH_INFO"} |->
               IF k = "REQUEST_METHOD" THEN "GET" ELSE "/servers"]
ForgedHeaders == {"HTTP_X_IDENTITY_STATUS", "HTTP_X_AUTHORIZATION", "HTTP_X_TENANT_ID",
                  "HTTP_X_TENANT_NAME", "HTTP_X_USER_ID", "HTTP_X_USER_NAME", "HTTP_X_ROLES",
                  "HTTP_X_TENANT", "HTTP_X_USER", "HTTP_X_ROLE", "HTTP_X_CAPABILITIES"}
Forged(e) ==
    [k \in DOMAIN e \cup ForgedHeaders |->
        IF k = "HTTP_X_IDENTITY_STATUS" THEN "Confirmed"
        ELSE IF k \in ForgedHeaders THEN "forged" ELSE e[k]]
ClientEnvs ==
    LET plain == {BareEnv,
                  dict_set(BareEnv, "HTTP_X_AUTH_TOKEN", "tok"),
                  dict_set(BareEnv, "HTTP_X_AUTH_TOKEN", ""),
                  dict_set(BareEnv, "HTTP_X_STORAGE_TOKEN", "tok")}
    IN plain \cup {Forged(BareEnv), Forged(dict_set(BareEnv, "HTTP_X_AUTH_TOKEN", "tok"))}

\* validation responses: a token with its tenant (post diablo), a token
\* whose tenant is under user (diablo), and a token without tenant
TokenInfos ==
    {[access |-> [token |-> [id |-> "tok", tenant |-> [id |-> "t1", name |-> "acme"]],
                  user |-> [id |-> "u1", name |-> "alice",
                            roles |-> << [name |-> "Member"] >>]]],
     [access |-> [token |-> [id |-> "tok", capabilities |-> <<"cap1">>],
                  user |-> [id |-> "u1", name |-> "alice", tenantId |-> "t1",
                            tenantName |-> "acme",
                            roles |-> << [name |-> "Admin"], [name |-> "Member"] >>]]],
     [access |-> [token |-> [id |-> "tok"],
                  user |-> [id |-> "u1", name |-> "alice", roles |-> << >>]]]}
Validations ==
    {[status |-> 200, token_info |-> ti] : ti \in TokenInfos}
    \cup {[status |-> s, token_info |-> [access |-> [token |-> [id |-> "tok"]]]] : s \in {401, 404}}
CatalogInfos ==
    {<< >>,
     << [type |-> "image"], [k \in {"type", "RAX-RBAC-capabilities"} |->
                                IF k = "type" THEN "compute" ELSE <<"cap2", "cap3">>] >>}
ServiceAnswers ==
    {[status |-> 200, body |-> "data", headerlist |-> << >>],
     [status |-> 305, body |-> "proxy", headerlist |-> << >>],
     [status |-> 401, body |-> "denied", headerlist |-> << <<"X-Reason", "denied">> >>]}

\* ------------------------------------------------------------- observers
\* issued keeps, per (user, scope), the token returned by the latest
\* successful authentication, for as long as the user row and the tenant
\* row stay as they were and the token is not deleted
Kept(i) ==
    /\ i.user_id \in DOMAIN users /\ i.user_id \in DOMAIN users'
    /\ users'[i.user_id] = users[i.user_id]
    /\ i.tenant_id # None =>
          /\ i.tenant_id \in DOMAIN tenants /\ i.tenant_id \in DOMAIN tenants'
          /\ tenants'[i.tenant_id] = tenants[i.tenant_id]
    /\ i.token_id \in DOMAIN tokens'

Observe(new) ==
    issued' = {i \in issued : /\ Kept(i)
                              /\ \A n \in new : ~ (n.user_id = i.user_id /\ n.tenant_id = i.tenant_id)}
              \cup new

SetCache(c) ==
    /\ ADMIN_ROLE_ID' = c.adm
    /\ SERVICE_ADMIN_ROLE_ID' = c.svc

\* a request that raises before it writes anything
Fail(req, fault) ==
    /\ result' = [req EXCEPT !.ret = fault]
    /\ UNCHANGED <<now, middleware, catalog, threads, tenants, users, roles, grants, tokens, credentials, uuid>>
    /\ Observe({})

\* ----------------------------------------------------------------- Init
\* The deployment after bootstrap: the two well-known roles and a member
\* role, the administrator with a global Admin grant, tenant acme with user
\* alice, and alice's EC2 credentials.
Init ==
    /\ now = 0
    /\ tenants = [t \in {"t0"} |-> [name |-> "acme", enabled |-> TRUE]]
    /\ users = [u \in {"ua", "u0"} |->
                  IF u = "ua"
                  THEN [name |-> "admin", password |-> "secrete", enabled |-> TRUE, tenant_id |-> None]
                  ELSE [name |-> "alice", password |-> "p", enabled |-> TRUE, tenant_id |-> "t0"]]
    /\ roles = [r \in {"r1", "r2", "r3"} |->
                  [name |-> IF r = "r1" THEN ADMIN_ROLE_NAME
                            ELSE IF r = "r2" THEN SERVICE_ADMIN_ROLE_NAME ELSE "Member",
                   service_id |-> None]]
    /\ grants = {[user_id |-> "ua", role_id |-> "r1", tenant_id |-> None, n |-> 1]}
    /\ tokens = [k \in {} |-> None]
    /\ credentials = {[type |-> "EC2", key |-> "AK", secret |-> "SK",
                       user_id |-> "u0", tenant_id |-> "t0"]}
    /\ ADMIN_ROLE_ID = None
    /\ SERVICE_ADMIN_ROLE_ID = None
    /\ uuid = 0
    /\ result = [op |-> "init", at |-> 0, ret |-> "ok"]
    /\ issued = {}
    /\ services = [k \in {} |-> None]
    /\ endpoint_templates = [k \in {} |-> None]
    /\ endpoints = [k \in {} |-> None]
    /\ serial = [table \in {"svc", "tpl", "ep", "role"} |-> 0]
    /\ threads = [t \in Threads |-> Idle]
    /\ protocol = AuthProtocol("app", [k \in {"auth_host", "auth_port"} |->
                                        IF k = "auth_host" THEN "id.example.com" ELSE "5001"])
    /\ NoRequest

\* -------------------------------------------------------------- actions
\* the clock advances
Tick ==
    /\ now < MaxTime
    /\ now' = now + 1
    /\ UNCHANGED <<tenants, users, roles, grants, tokens, credentials, catalog,
                   ADMIN_ROLE_ID, SERVICE_ADMIN_ROLE_ID, uuid, result, issued, threads,
                   middleware>>

\* the tail of _authenticate once dtoken is in the token table: get_auth_data
AuthData(req, dtoken, scope) ==
    /\ UNCHANGED <<now, middleware, catalog, tenants, users, roles, grants, credentials>>
    /\ SetCache(IF (get_auth_data_rows(dtoken) /\ validate_token(dtoken, None, FALSE) = "ok")'
                THEN initialize_admin_role_identifiers
                ELSE [svc |-> SERVICE_ADMIN_ROLE_ID, adm |-> ADMIN_ROLE_ID])
    /\ LET r == get_auth_data(dtoken)' IN
       /\ result' = [req EXCEPT !.ret = r, !.val = IF r = "ok" THEN dtoken ELSE None]
       /\ Observe(IF r = "ok"
                  THEN {[user_id |-> tokens'[dtoken].user_id, tenant_id |-> scope,
                         token_id |-> dtoken]}
                  ELSE {})

\* _authenticate: the user (associated with the tenant when one is given),
\* enabled, validated (what validate(duser) gives: "True", "False" or the
\* fault it raises); then the stored token of (user, scope) with the
\* greatest expires is reused unless it is missing or expired
authenticate_(req, validated, user_id, tenant_id) ==
    LET duser == IF Truthy(tenant_id) THEN UserAPI_get_by_tenant(user_id, tenant_id)
                 ELSE UserAPI_get(user_id)
    IN
    IF duser = None THEN Fail(req, "Unauthorized") /\ UNCHANGED cache
    ELSE IF ~ users[duser].enabled THEN Fail(req, "UserDisabled") /\ UNCHANGED cache
    ELSE IF validated = "False" THEN Fail(req, "Unauthorized") /\ UNCHANGED cache
    ELSE IF validated # "True" THEN Fail(req, validated) /\ UNCHANGED cache
    ELSE LET scope == IF Truthy(tenant_id) THEN tenant_id ELSE users[duser].tenant_id
             found == TokenAPI_get_for_user_by_tenant(duser, scope)
         IN \/ \E dtoken \in found :
                  /\ ~ token_expired(dtoken)
                  /\ UNCHANGED <<tokens, uuid, threads>>
                  /\ AuthData(req, dtoken, scope)
            \/ /\ found = {} \/ \E dtoken \in found : token_expired(dtoken)
               /\ uuid < MaxUuid
               /\ UNCHANGED threads
               /\ \E id \in {Uuid("k", uuid + 1)} :
                     /\ uuid' = uuid + 1
                     /\ tokens' = TokenAPI_create(id, duser, scope, now + TTL)
                     /\ AuthData(req, id, scope)

\* IdentityService.authenticate (password credentials)
Authenticate(username, password, tenant_id, tenant_name) ==
    LET req == [op |-> "authenticate", username |-> username, password |-> password,
                tenant_id |-> tenant_id, tenant_name |-> tenant_name,
                at |-> now, ret |-> "ok", val |-> None]
        fault == IF Truthy(tenant_name) THEN validate_tenant_by_name(tenant_name)
                 ELSE IF Truthy(tenant_id) THEN validate_tenant_by_id(tenant_id)
                 ELSE "ok"
        tid == IF Truthy(tenant_name) THEN TenantAPI_get_by_name(tenant_name) ELSE tenant_id
        user == UserAPI_get_by_name(username)
    IN
    IF fault # "ok" THEN Fail(req, fault) /\ UNCHANGED cache
    ELSE IF user = None THEN Fail(req, "Unauthorized") /\ UNCHANGED cache
    ELSE authenticate_(req,
                       IF UserAPI_check_password(user, password) THEN "True" ELSE "False",
                       user, tid)

\* _authenticate in a handler thread, up to the test on what
\* TOKEN.get_for_user_by_tenant returned: a token that is stored and not
\* expired is returned at once; otherwise the thread goes on to TOKEN.create,
\* and other requests may run before it gets there
authenticate_begin(t, req, validated, user_id, tenant_id) ==
    LET duser == IF Truthy(tenant_id) THEN UserAPI_get_by_tenant(user_id, tenant_id)
                 ELSE UserAPI_get(user_id)
    IN
    IF duser = None THEN Fail(req, "Unauthorized") /\ UNCHANGED cache
    ELSE IF ~ users[duser].enabled THEN Fail(req, "UserDisabled") /\ UNCHANGED cache
    ELSE IF validated = "False" THEN Fail(req, "Unauthorized") /\ UNCHANGED cache
    ELSE IF validated # "True" THEN Fail(req, validated) /\ UNCHANGED cache
    ELSE LET scope == IF Truthy(tenant_id) THEN tenant_id ELSE users[duser].tenant_id
             found == TokenAPI_get_for_user_by_tenant(duser, scope)
         IN \/ \E dtoken \in found :
                  /\ ~ token_expired(dtoken)
                  /\ UNCHANGED <<tokens, uuid, threads>>
                  /\ AuthData(req, dtoken, scope)
            \/ /\ found = {} \/ \E dtoken \in found : token_expired(dtoken)
               /\ threads' = [threads EXCEPT ![t] = [pc |-> "TOKEN.create", req |-> req,
                                                     user_id |-> duser, tenant_id |-> scope]]
               /\ UNCHANGED <<now, middleware, catalog, tenants, users, roles, grants, tokens,
                              credentials, uuid, result, issued>>
               /\ UNCHANGED cache

\* IdentityService.authenticate (password credentials, no tenant named) in
\* handler thread t
AuthenticateBegin(t, username, password) ==
    LET req == [op |-> "authenticate", username |-> username, password |-> password,
                tenant_id |-> None, tenant_name |-> None,
                at |-> now, ret |-> "ok", val |-> None]
        user == UserAPI_get_by_name(username)
    IN
    /\ threads[t] = Idle
    /\ IF user = None THEN Fail(req, "Unauthorized") /\ UNCHANGED cache
       ELSE authenticate_begin(t, req,
                               IF UserAPI_check_password(user, password) THEN "True" ELSE "False",
                               user, None)

\* the rest of _authenticate in thread t: the new token, with
\* expires = datetime.now() + timedelta(days=1) read now, TOKEN.create and
\* get_auth_data
AuthenticateCreate(t) ==
    /\ threads[t].pc = "TOKEN.create"
    /\ uuid < MaxUuid
    /\ threads' = [threads EXCEPT ![t] = Idle]
    /\ \E id \in {Uuid("k", uuid + 1)} :
          /\ uuid' = uuid + 1
          /\ tokens' = TokenAPI_create(id, threads[t].user_id, threads[t].tenant_id, now + TTL)
          /\ AuthData([threads[t].req EXCEPT !.at = now], id, threads[t].tenant_id)

\* _authenticate in thread t from TOKEN.create up to the call of
\* initialize_admin_role_identifiers in has_service_admin_role: the token
\* is stored, get_auth_data reads its rows and validate_token accepts it
AuthenticateStore(t) ==
    /\ threads[t].pc = "TOKEN.create"
    /\ uuid < MaxUuid
    /\ UNCHANGED <<now, middleware, catalog, tenants, users, roles, grants, credentials, cache>>
    /\ \E id \in {Uuid("k", uuid + 1)} :
          /\ uuid' = uuid + 1
          /\ tokens' = TokenAPI_create(id, threads[t].user_id, threads[t].tenant_id, now + TTL)
          /\ IF (get_auth_data_rows(id) /\ validate_token(id, None, FALSE) = "ok")'
             THEN /\ threads' = [threads EXCEPT ![t] =
                                    [pc |-> "is None", id |-> "svc", req |-> threads[t].req,
                                     token_id |-> id, tenant_id |-> threads[t].tenant_id]]
                  /\ UNCHANGED <<result, issued>>
             ELSE /\ threads' = [threads EXCEPT ![t] = Idle]
                  /\ result' = [threads[t].req EXCEPT !.at = now, !.ret = get_auth_data(id)']
                  /\ Observe({})

\* the role name and the cached id that initialize_admin_role_identifiers
\* works on: SERVICE_ADMIN_ROLE_ID first ("svc"), ADMIN_ROLE_ID second ("adm")
RoleNameOf(id) == IF id = "svc" THEN SERVICE_ADMIN_ROLE_NAME ELSE ADMIN_ROLE_NAME
CachedRoleId(id) == IF id = "svc" THEN SERVICE_ADMIN_ROLE_ID ELSE ADMIN_ROLE_ID

\* where thread t goes once it is done with one of the two ids
InitializeDone(t) ==
    [threads[t] EXCEPT !.pc = IF threads[t].id = "svc" THEN "is None" ELSE "has_role",
                       !.id = "adm"]

\* initialize_admin_role_identifiers in thread t: if backends.X is None
InitializeTest(t) ==
    /\ threads[t].pc = "is None"
    /\ threads' = [threads EXCEPT ![t] =
                     IF CachedRoleId(threads[t].id) = None
                     THEN [threads[t] EXCEPT !.pc = "ROLE.get_by_name"]
                     ELSE InitializeDone(t)]
    /\ UNCHANGED <<now, middleware, store, cache, uuid, result, issued>>

\* initialize_admin_role_identifiers in thread t: role = api.ROLE.get_by_name(...)
InitializeLookup(t) ==
    /\ threads[t].pc = "ROLE.get_by_name"
    /\ threads' = [threads EXCEPT ![t] =
                     [pc |-> "publish", id |-> threads[t].id, req |-> threads[t].req,
                      token_id |-> threads[t].token_id, tenant_id |-> threads[t].tenant_id,
                      role |-> RoleAPI_get_by_name(RoleNameOf(threads[t].id))]]
    /\ UNCHANGED <<now, middleware, store, cache, uuid, result, issued>>

\* initialize_admin_role_identifiers in thread t: if role: backends.X = role.id
InitializePublish(t) ==
    /\ threads[t].pc = "publish"
    /\ IF threads[t].role = None THEN UNCHANGED cache
       ELSE IF threads[t].id = "svc"
       THEN SERVICE_ADMIN_ROLE_ID' = threads[t].role /\ UNCHANGED ADMIN_ROLE_ID
       ELSE ADMIN_ROLE_ID' = threads[t].role /\ UNCHANGED SERVICE_ADMIN_ROLE_ID
    /\ threads' = [threads EXCEPT ![t] =
                     [pc |-> IF threads[t].id = "svc" THEN "is None" ELSE "has_role",
                      id |-> "adm", req |-> threads[t].req,
                      token_id |-> threads[t].token_id, tenant_id |-> threads[t].tenant_id]]
    /\ UNCHANGED <<now, middleware, store, uuid, result, issued>>

\* the rest of get_auth_data in thread t: has_role, has_admin_role for a
\* user without the service-admin role, and the AuthData returned
AuthenticateEnd(t) ==
    /\ threads[t].pc = "has_role"
    /\ threads' = [threads EXCEPT ![t] = Idle]
    /\ \E dtoken \in {threads[t].token_id} :
          IF dtoken \notin DOMAIN tokens
          THEN Fail([threads[t].req EXCEPT !.at = now], "Unauthorized") /\ UNCHANGED cache
          ELSE /\ SetCache(IF has_role(tokens[dtoken].user_id, SERVICE_ADMIN_ROLE_ID)
                           THEN [svc |-> SERVICE_ADMIN_ROLE_ID, adm |-> ADMIN_ROLE_ID]
                           ELSE CacheAfter(dtoken))
               /\ LET r == IF has_role(tokens[dtoken].user_id, SERVICE_ADMIN_ROLE_ID)
                           THEN "True" ELSE has_admin_role(dtoken)
                  IN result' = [threads[t].req EXCEPT
                                   !.at = now,
                                   !.ret = IF r \in {"True", "False"} THEN "ok" ELSE r,
                                   !.val = IF r \in {"True", "False"} THEN dtoken ELSE None]
               /\ UNCHANGED <<now, middleware, store, uuid>>
               /\ Observe({})

\* IdentityService.authenticate_with_unscoped_token
AuthenticateWithUnscopedToken(token_id, tenant_id, tenant_name) ==
    LET req == [op |-> "authenticate_with_unscoped_token", token_id |-> token_id,
                tenant_id |-> tenant_id, tenant_name |-> tenant_name,
                at |-> now, ret |-> "ok", val |-> None]
        v == validate_token(token_id, None, FALSE)
        fault == IF Truthy(tenant_name) THEN validate_tenant_by_name(tenant_name)
                 ELSE IF Truthy(tenant_id) THEN validate_tenant_by_id(tenant_id)
                 ELSE "ok"
        tid == IF Truthy(tenant_name) THEN TenantAPI_get_by_name(tenant_name) ELSE tenant_id
    IN
    IF v # "ok" THEN Fail(req, v) /\ UNCHANGED cache
    ELSE IF fault # "ok" THEN Fail(req, fault) /\ UNCHANGED cache
    ELSE authenticate_(req, "True", tokens[token_id].user_id, tid)

\* Signer(secret).generate(credentials): a deterministic signature of the
\* request; of the canonical request only the host (split at ':') varies
Signer_generate(secret, host) == <<secret, host>>

\* the validate closure of authenticate_ec2: the signature for the host as
\* sent, else, when the host holds a ':', for the part before it;
\* hostname, _port = host.split(":") needs exactly two parts
ec2_validate(secret, signature, host) ==
    IF Signer_generate(secret, host) = signature THEN "True"
    ELSE IF Len(host) > 1
    THEN (IF Len(host) # 2 THEN "ValueError"
          ELSE IF Signer_generate(secret, <<host[1]>>) = signature THEN "True" ELSE "False")
    ELSE "False"

\* IdentityService.authenticate_ec2
AuthenticateEc2(access, signature, host) ==
    LET req == [op |-> "authenticate_ec2", access |-> access, signature |-> signature,
                host |-> host, at |-> now, ret |-> "ok", val |-> None]
    IN
    IF CredentialsAPI_get_by_access(access) = {} THEN Fail(req, "Unauthorized") /\ UNCHANGED cache
    ELSE \E creds \in CredentialsAPI_get_by_access(access) :
            authenticate_(req, ec2_validate(creds.secret, signature, host),
                          creds.user_id, creds.tenant_id)

\* validate_token applied to a presented token id
ValidateToken(token_id, belongs_to, is_check_token) ==
    /\ result' = [op |-> "validate_token", token_id |-> token_id, belongs_to |-> belongs_to,
                  is_check_token |-> is_check_token,
                  at |-> now,
                  ret |-> validate_token(token_id, belongs_to, is_check_token)]
    /\ UNCHANGED <<now, middleware, catalog, threads, tenants, users, roles, grants, tokens, credentials,
                   ADMIN_ROLE_ID, SERVICE_ADMIN_ROLE_ID, uuid, issued>>

\* IdentityService.revoke_token
RevokeToken(admin_token, token_id) ==
    LET req == [op |-> "revoke_token", admin_token |-> admin_token, token_id |-> token_id,
                at |-> now, ret |-> "ok"]
        a == validate_admin_token(admin_token)
    IN
    /\ SetCache(CacheAfter(admin_token))
    /\ IF a # "ok" THEN Fail(req, a)
       ELSE IF TokenAPI_get(token_id) = None THEN Fail(req, "ItemNotFound")
       ELSE Fail(req, TokenAPI_delete(token_id))

\* has_admin_role applied to a presented token id
HasAdminRole(token_id) ==
    /\ result' = [op |-> "has_admin_role", token_id |-> token_id,
                  at |-> now,
                  ret |-> has_admin_role(token_id)]
    /\ SetCache(CacheAfter(token_id))
    /\ UNCHANGED <<now, middleware, catalog, threads, tenants, users, roles, grants, tokens, credentials,
                   uuid, issued>>

\* has_service_admin_role applied to a presented token id
HasServiceAdminRole(token_id) ==
    /\ result' = [op |-> "has_service_admin_role", token_id |-> token_id,
                  at |-> now,
                  ret |-> has_service_admin_role(token_id)]
    /\ SetCache(CacheAfter(token_id))
    /\ UNCHANGED <<now, middleware, catalog, threads, tenants, users, roles, grants, tokens, credentials,
                   uuid, issued>>

\* utils.check_empty_string: a missing or blank name is a bad request
check_empty_string(value) == IF Truthy(value) THEN "ok" ELSE "BadRequest"

\* IdentityService.validate_and_fetch_user_tenant: "ok" or the fault raised
validate_and_fetch_user_tenant(tenant_id) ==
    IF ~ Truthy(tenant_id) THEN "ok"
    ELSE IF TenantAPI_get(tenant_id) = None THEN "ItemNotFound"
    ELSE IF ~ tenants[tenant_id].enabled THEN "TenantDisabled"
    ELSE "ok"

\* IdentityService.create_tenant
CreateTenant(admin_token, name, enabled) ==
    LET req == [op |-> "create_tenant", admin_token |-> admin_token, name |-> name,
                enabled |-> enabled, at |-> now, ret |-> "ok"]
        a == validate_admin_token(admin_token)
    IN
    /\ SetCache(CacheAfter(admin_token))
    /\ IF a # "ok" THEN Fail(req, a)
       ELSE IF check_empty_string(name) # "ok" THEN Fail(req, "BadRequest")
       ELSE IF TenantAPI_get_by_name(name) # None THEN Fail(req, "TenantConflict")
       ELSE /\ uuid < MaxUuid
            /\ uuid' = uuid + 1
            /\ tenants' = TenantAPI_create(Uuid("t", uuid + 1), name, enabled)
            /\ result' = req
            /\ UNCHANGED <<now, middleware, catalog, threads, users, roles, grants, tokens, credentials>>
            /\ Observe({})

\* IdentityService.update_tenant
UpdateTenant(admin_token, tenant_id, name, enabled) ==
    LET req == [op |-> "update_tenant", admin_token |-> admin_token, tenant_id |-> tenant_id,
                name |-> name, enabled |-> enabled, at |-> now, ret |-> "ok"]
        a == validate_admin_token(admin_token)
    IN
    /\ SetCache(CacheAfter(admin_token))
    /\ IF a # "ok" THEN Fail(req, a)
       ELSE IF TenantAPI_get(tenant_id) = None THEN Fail(req, "ItemNotFound")
       ELSE IF check_empty_string(name) # "ok" THEN Fail(req, "BadRequest")
       ELSE IF name # tenants[tenant_id].name /\ TenantAPI_get_by_name(name) # None
       THEN Fail(req, "TenantConflict")
       ELSE /\ tenants' = TenantAPI_update(tenant_id, name, enabled)
            /\ result' = req
            /\ UNCHANGED <<now, middleware, catalog, threads, users, roles, grants, tokens, credentials, uuid>>
            /\ Observe({})

\* IdentityService.delete_tenant
DeleteTenant(admin_token, tenant_id) ==
    LET req == [op |-> "delete_tenant", admin_token |-> admin_token, tenant_id |-> tenant_id,
                at |-> now, ret |-> "ok"]
        a == validate_admin_token(admin_token)
    IN
    /\ SetCache(CacheAfter(admin_token))
    /\ IF a # "ok" THEN Fail(req, a)
       ELSE IF TenantAPI_get(tenant_id) = None THEN Fail(req, "ItemNotFound")
       ELSE IF ~ TenantAPI_is_empty(tenant_id) THEN Fail(req, "Forbidden")
       ELSE /\ tenants' = TenantAPI_delete(tenant_id)
            /\ result' = req
            /\ UNCHANGED <<now, middleware, catalog, threads, users, roles, grants, tokens, credentials, uuid>>
            /\ Observe({})

\* IdentityService.create_user
CreateUser(admin_token, name, password, enabled, tenant_id) ==
    LET req == [op |-> "create_user", admin_token |-> admin_token, name |-> name,
                tenant_id |-> tenant_id, enabled |-> enabled, at |-> now, ret |-> "ok"]
        a == validate_admin_token(admin_token)
    IN
    /\ SetCache(CacheAfter(admin_token))
    /\ IF a # "ok" THEN Fail(req, a)
       ELSE IF validate_and_fetch_user_tenant(tenant_id) # "ok"
       THEN Fail(req, validate_and_fetch_user_tenant(tenant_id))
       ELSE IF check_empty_string(name) # "ok" THEN Fail(req, "BadRequest")
       ELSE IF UserAPI_get_by_name(name) # None THEN Fail(req, "UserConflict")
       ELSE /\ uuid < MaxUuid
            /\ uuid' = uuid + 1
            /\ users' = UserAPI_create(Uuid("u", uuid + 1), name, password, enabled, tenant_id)
            /\ result' = req
            /\ UNCHANGED <<now, middleware, catalog, threads, tenants, roles, grants, tokens, credentials>>
            /\ Observe({})

\* IdentityService.update_user; the request carries the user's stored email
UpdateUser(admin_token, user_id, name) ==
    LET req == [op |-> "update_user", admin_token |-> admin_token, user_id |-> user_id,
                name |-> name, at |-> now, ret |-> "ok"]
        a == validate_admin_token(admin_token)
    IN
    /\ SetCache(CacheAfter(admin_token))
    /\ IF a # "ok" THEN Fail(req, a)
       ELSE IF UserAPI_get(user_id) = None THEN Fail(req, "ItemNotFound")
       ELSE IF check_empty_string(name) # "ok" THEN Fail(req, "BadRequest")
       ELSE IF name # users[user_id].name /\ UserAPI_get_by_name(name) # None
       THEN Fail(req, "UserConflict")
       ELSE /\ users' = UserAPI_update_name(user_id, name)
            /\ result' = req
            /\ UNCHANGED <<now, middleware, catalog, threads, tenants, roles, grants, tokens, credentials, uuid>>
            /\ Observe({})

\* IdentityService.create_password_credentials
CreatePasswordCredentials(admin_token, user_id, user_name, password) ==
    LET req == [op |-> "create_password_credentials", admin_token |-> admin_token,
                user_id |-> user_id, name |-> user_name, at |-> now, ret |-> "ok"]
        a == validate_admin_token(admin_token)
    IN
    /\ SetCache(CacheAfter(admin_token))
    /\ IF a # "ok" THEN Fail(req, a)
       ELSE IF UserAPI_get(user_id) = None THEN Fail(req, "ItemNotFound")
       ELSE IF ~ Truthy(user_name) THEN Fail(req, "BadRequest")
       ELSE IF user_name # users[user_id].name /\ UserAPI_get_by_name(user_name) # None
       THEN Fail(req, "UserConflict")
       ELSE IF Truthy(users[user_id].password) THEN Fail(req, "BadRequest")
       ELSE /\ users' = UserAPI_update_password_name(user_id, password, user_name)
            /\ result' = req
            /\ UNCHANGED <<now, middleware, catalog, threads, tenants, roles, grants, tokens, credentials, uuid>>
            /\ Observe({})

\* IdentityService.update_password_credentials: duser_name.id is read from
\* what USER.get_by_name returned, None for a name no user has
UpdatePasswordCredentials(admin_token, user_id, user_name, password) ==
    LET req == [op |-> "update_password_credentials", admin_token |-> admin_token,
                user_id |-> user_id, name |-> user_name, at |-> now, ret |-> "ok"]
        a == validate_admin_token(admin_token)
    IN
    /\ SetCache(CacheAfter(admin_token))
    /\ IF a # "ok" THEN Fail(req, a)
       ELSE IF UserAPI_get(user_id) = None THEN Fail(req, "ItemNotFound")
       ELSE IF ~ Truthy(user_name) THEN Fail(req, "BadRequest")
       ELSE IF UserAPI_get_by_name(user_name) = None THEN Fail(req, "AttributeError")
       ELSE IF UserAPI_get_by_name(user_name) # user_id THEN Fail(req, "UserConflict")
       ELSE /\ users' = UserAPI_update_password_name(user_id, password, user_name)
            /\ result' = req
            /\ UNCHANGED <<now, middleware, catalog, threads, tenants, roles, grants, tokens, credentials, uuid>>
            /\ Observe({})

\* IdentityService.enable_disable_user
EnableDisableUser(admin_token, user_id, enabled) ==
    LET req == [op |-> "enable_disable_user", admin_token |-> admin_token,
                user_id |-> user_id, enabled |-> enabled, at |-> now, ret |-> "ok"]
        a == validate_admin_token(admin_token)
    IN
    /\ SetCache(CacheAfter(admin_token))
    /\ IF a # "ok" THEN Fail(req, a)
       ELSE IF UserAPI_get(user_id) = None THEN Fail(req, "ItemNotFound")
       ELSE /\ users' = UserAPI_update_enabled(user_id, enabled)
            /\ result' = req
            /\ UNCHANGED <<now, middleware, catalog, threads, tenants, roles, grants, tokens, credentials, uuid>>
            /\ Observe({})

\* IdentityService.set_user_tenant
SetUserTenant(admin_token, user_id, tenant_id) ==
    LET req == [op |-> "set_user_tenant", admin_token |-> admin_token,
                user_id |-> user_id, tenant_id |-> tenant_id, at |-> now, ret |-> "ok"]
        a == validate_admin_token(admin_token)
    IN
    /\ SetCache(CacheAfter(admin_token))
    /\ IF a # "ok" THEN Fail(req, a)
       ELSE IF UserAPI_get(user_id) = None THEN Fail(req, "ItemNotFound")
       ELSE IF validate_and_fetch_user_tenant(tenant_id) # "ok"
       THEN Fail(req, validate_and_fetch_user_tenant(tenant_id))
       ELSE /\ users' = UserAPI_update_tenant_id(user_id, tenant_id)
            /\ result' = req
            /\ UNCHANGED <<now, middleware, catalog, threads, tenants, roles, grants, tokens, credentials, uuid>>
            /\ Observe({})

\* IdentityService.delete_user
DeleteUser(admin_token, user_id) ==
    LET req == [op |-> "delete_user", admin_token |-> admin_token, user_id |-> user_id,
                at |-> now, ret |-> "ok"]
        a == validate_admin_token(admin_token)
    IN
    /\ SetCache(CacheAfter(admin_token))
    /\ IF a # "ok" THEN Fail(req, a)
       ELSE IF UserAPI_get(user_id) = None THEN Fail(req, "ItemNotFound")
       ELSE /\ grants' = IF TenantAPI_get(users[user_id].tenant_id) # None
                         THEN UserAPI_delete_tenant_user(user_id, users[user_id].tenant_id)
                         ELSE grants
            /\ users' = UserAPI_delete(user_id)
            /\ result' = req
            /\ UNCHANGED <<now, middleware, catalog, threads, tenants, roles, tokens, credentials, uuid>>
            /\ Observe({})

\* add_role_to_user without the test on ROLE.ref_get_by_user
already_mapped_never(user_id, role_id, tenant_id) == FALSE

\* add_role_to_user: drole_ref = api.ROLE.ref_get_by_user(...) is not None
already_mapped(user_id, role_id, tenant_id) ==
    RoleAPI_ref_get_by_user(user_id, role_id, tenant_id) # {}

\* IdentityService.add_role_to_user
AddRoleToUser(admin_token, user_id, role_id, tenant_id) ==
    LET req == [op |-> "add_role_to_user", admin_token |-> admin_token, user_id |-> user_id,
                role_id |-> role_id, tenant_id |-> tenant_id, at |-> now, ret |-> "ok"]
        a == validate_service_admin_token(admin_token)
    IN
    /\ SetCache(CacheAfter(admin_token))
    /\ IF a # "ok" THEN Fail(req, a)
       ELSE IF UserAPI_get(user_id) = None THEN Fail(req, "ItemNotFound")
       ELSE IF RoleAPI_get(role_id) = None THEN Fail(req, "ItemNotFound")
       ELSE IF tenant_id # None /\ TenantAPI_get(tenant_id) = None THEN Fail(req, "ItemNotFound")
       ELSE IF already_mapped(user_id, role_id, tenant_id) THEN Fail(req, "RoleConflict")
       ELSE /\ grants' = UserAPI_user_role_add(user_id, role_id, tenant_id)
            /\ result' = req
            /\ UNCHANGED <<now, middleware, catalog, threads, tenants, users, roles, tokens, credentials, uuid>>
            /\ Observe({})

\* add_role_to_user in handler thread t, through the test on
\* ROLE.ref_get_by_user; USER.user_role_add is a later repository call, in a
\* session of its own, and other requests may run before it
AddRoleToUserBegin(t, admin_token, user_id, role_id, tenant_id) ==
    LET req == [op |-> "add_role_to_user", admin_token |-> admin_token, user_id |-> user_id,
                role_id |-> role_id, tenant_id |-> tenant_id, at |-> now, ret |-> "ok"]
        a == validate_service_admin_token(admin_token)
    IN
    /\ threads[t] = Idle
    /\ SetCache(CacheAfter(admin_token))
    /\ IF a # "ok" THEN Fail(req, a)
       ELSE IF UserAPI_get(user_id) = None THEN Fail(req, "ItemNotFound")
       ELSE IF RoleAPI_get(role_id) = None THEN Fail(req, "ItemNotFound")
       ELSE IF tenant_id # None /\ TenantAPI_get(tenant_id) = None THEN Fail(req, "ItemNotFound")
       ELSE IF already_mapped(user_id, role_id, tenant_id) THEN Fail(req, "RoleConflict")
       ELSE /\ threads' = [threads EXCEPT ![t] = [pc |-> "USER.user_role_add", req |-> req]]
            /\ UNCHANGED <<now, middleware, catalog, tenants, users, roles, grants, tokens, credentials,
                           uuid, result>>
            /\ Observe({})

\* add_role_to_user in thread t: USER.user_role_add, and the request returns
AddRoleToUserEnd(t) ==
    /\ threads[t].pc = "USER.user_role_add"
    /\ \E req \in {threads[t].req} :
          /\ grants' = UserAPI_user_role_add(req.user_id, req.role_id, req.tenant_id)
          /\ result' = [req EXCEPT !.at = now]
    /\ threads' = [threads EXCEPT ![t] = Idle]
    /\ UNCHANGED <<now, middleware, catalog, tenants, users, roles, tokens, credentials, uuid, cache>>
    /\ Observe({})

\* IdentityService.remove_role_from_user
RemoveRoleFromUser(admin_token, user_id, role_id, tenant_id) ==
    LET req == [op |-> "remove_role_from_user", admin_token |-> admin_token,
                user_id |-> user_id, role_id |-> role_id, tenant_id |-> tenant_id,
                at |-> now, ret |-> "ok"]
        a == validate_service_admin_token(admin_token)
    IN
    /\ SetCache(CacheAfter(admin_token))
    /\ IF a # "ok" THEN Fail(req, a)
       ELSE IF RoleAPI_ref_get_by_user(user_id, role_id, tenant_id) = {}
       THEN Fail(req, "ItemNotFound")
       ELSE /\ \E ref \in RoleAPI_ref_get_by_user(user_id, role_id, tenant_id) :
                  grants' = RoleAPI_ref_delete(ref)
            /\ result' = req
            /\ UNCHANGED <<now, middleware, catalog, threads, tenants, users, roles, tokens, credentials, uuid>>
            /\ Observe({})

\* is_owner that takes every user for the owner
is_owner_anyone(user, service) == TRUE

\* is_owner
is_owner(user, service) == services[service].owner_id = user

\* IdentityService.create_role
CreateRole(admin_token, name, service_id) ==
    LET req == [op |-> "create_role", admin_token |-> admin_token, name |-> name,
                service_id |-> service_id, at |-> now, ret |-> "ok", val |-> None]
        a == validate_service_admin_token(admin_token)
        embedded == service_id = None /\ HasColon(name)
        sid == IF embedded THEN ServiceAPI_get_by_name(SplitHead(name)) ELSE service_id
    IN
    /\ SetCache(CacheAfter(admin_token))
    /\ IF a # "ok" THEN Fail(req, a)
       ELSE IF check_empty_string(name) # "ok" THEN Fail(req, "BadRequest")
       ELSE IF RoleAPI_get(name) # None THEN Fail(req, "RoleConflict")
       ELSE IF embedded /\ sid = None THEN Fail(req, "BadRequest")
       ELSE IF Truthy(sid) /\ ServiceAPI_get(sid) = None THEN Fail(req, "BadRequest")
       ELSE IF Truthy(sid) /\ ~ startswith(name, services[sid].name \o ":")
       THEN Fail(req, "BadRequest")
       ELSE IF /\ Truthy(sid)
               /\ ~ is_owner(tokens[admin_token].user_id, sid)
               /\ has_admin_role(admin_token) # "True"
       THEN Fail(req, "Unauthorized")
       ELSE /\ serial["role"] < MaxSerial
            /\ serial' = [serial EXCEPT !["role"] = @ + 1]
            /\ roles' = RoleAPI_create(Key("role", serial["role"] + 1), name, sid)
            /\ result' = [req EXCEPT !.val = Key("role", serial["role"] + 1)]
            /\ UNCHANGED <<now, middleware, threads, tenants, users, grants, tokens, credentials, uuid,
                           services, endpoint_templates, endpoints>>
            /\ Observe({})

\* IdentityService.delete_role: the ownership test, then the role's grants
\* and the role row
DeleteRole(admin_token, role_id) ==
    LET req == [op |-> "delete_role", admin_token |-> admin_token, role_id |-> role_id,
                at |-> now, ret |-> "ok"]
        a == validate_service_admin_token(admin_token)
    IN
    /\ SetCache(CacheAfter(admin_token))
    /\ IF a # "ok" THEN Fail(req, a)
       ELSE IF RoleAPI_get(role_id) = None THEN Fail(req, "ItemNotFound")
       ELSE IF /\ Truthy(roles[role_id].service_id)
               /\ ServiceAPI_get(roles[role_id].service_id) # None
               /\ ~ is_owner(tokens[admin_token].user_id, roles[role_id].service_id)
               /\ has_admin_role(admin_token) # "True"
       THEN Fail(req, "Unauthorized")
       ELSE /\ grants' = grants \ RoleAPI_ref_get_by_role(role_id)
            /\ roles' = RoleAPI_delete(role_id)
            /\ result' = req
            /\ UNCHANGED <<now, middleware, catalog, threads, tenants, users, tokens, credentials, uuid>>
            /\ Observe({})

\* IdentityService.add_endpoint_template: the template of the service that
\* has the name and type given
AddEndpointTemplate(admin_token, name, type) ==
    LET req == [op |-> "add_endpoint_template", admin_token |-> admin_token, name |-> name,
                type |-> type, at |-> now, ret |-> "ok", val |-> None]
        a == validate_service_admin_token(admin_token)
        dservice == ServiceAPI_get_by_name_and_type(name, type)
    IN
    /\ SetCache(CacheAfter(admin_token))
    /\ IF a # "ok" THEN Fail(req, a)
       ELSE IF check_empty_string(name) # "ok" THEN Fail(req, "BadRequest")
       ELSE IF check_empty_string(type) # "ok" THEN Fail(req, "BadRequest")
       ELSE IF dservice = None THEN Fail(req, "BadRequest")
       ELSE IF /\ ~ is_owner(tokens[admin_token].user_id, dservice)
               /\ has_admin_role(admin_token) # "True"
       THEN Fail(req, "Unauthorized")
       ELSE /\ serial["tpl"] < MaxSerial
            /\ serial' = [serial EXCEPT !["tpl"] = @ + 1]
            /\ endpoint_templates' = EndpointTemplateAPI_create(Key("tpl", serial["tpl"] + 1), dservice)
            /\ result' = [req EXCEPT !.val = Key("tpl", serial["tpl"] + 1)]
            /\ UNCHANGED <<now, middleware, threads, tenants, users, roles, grants, tokens, credentials,
                           uuid, services, endpoints>>
            /\ Observe({})

\* IdentityService.create_endpoint_for_tenant: the endpoint row is saved
\* before the template's service is read for the reply
CreateEndpointForTenant(admin_token, tenant_id, endpoint_template_id) ==
    LET req == [op |-> "create_endpoint_for_tenant", admin_token |-> admin_token,
                tenant_id |-> tenant_id, endpoint_template_id |-> endpoint_template_id,
                at |-> now, ret |-> "ok", val |-> None]
        a == validate_service_admin_token(admin_token)
    IN
    /\ SetCache(CacheAfter(admin_token))
    /\ IF a # "ok" THEN Fail(req, a)
       ELSE IF check_empty_string(tenant_id) # "ok" THEN Fail(req, "BadRequest")
       ELSE IF TenantAPI_get(tenant_id) = None THEN Fail(req, "ItemNotFound")
       ELSE IF EndpointTemplateAPI_get(endpoint_template_id) = None
       THEN Fail(req, "ItemNotFound")
       ELSE /\ serial["ep"] < MaxSerial
            /\ serial' = [serial EXCEPT !["ep"] = @ + 1]
            /\ endpoints' = EndpointTemplateAPI_endpoint_add(Key("ep", serial["ep"] + 1), tenant_id,
                                                              endpoint_template_id)
            /\ result' = [req EXCEPT
                             !.ret = IF ServiceAPI_get(
                                           endpoint_templates[endpoint_template_id].service_id) = None
                                     THEN "AttributeError" ELSE "ok",
                             !.val = Key("ep", serial["ep"] + 1)]
            /\ UNCHANGED <<now, middleware, threads, tenants, users, roles, grants, tokens, credentials,
                           uuid, services, endpoint_templates>>
            /\ Observe({})

\* IdentityService.create_service
CreateService(admin_token, name, type) ==
    LET req == [op |-> "create_service", admin_token |-> admin_token, name |-> name,
                type |-> type, at |-> now, ret |-> "ok", val |-> None]
        a == validate_service_admin_token(admin_token)
    IN
    /\ SetCache(CacheAfter(admin_token))
    /\ IF a # "ok" THEN Fail(req, a)
       ELSE IF ServiceAPI_get_by_name(name) # None THEN Fail(req, "ServiceConflict")
       ELSE /\ serial["svc"] < MaxSerial
            /\ serial' = [serial EXCEPT !["svc"] = @ + 1]
            /\ services' = ServiceAPI_create(Key("svc", serial["svc"] + 1), name, type,
                                             tokens[admin_token].user_id)
            /\ result' = [req EXCEPT !.val = Key("svc", serial["svc"] + 1)]
            /\ UNCHANGED <<now, middleware, threads, tenants, users, roles, grants, tokens, credentials,
                           uuid, endpoint_templates, endpoints>>
            /\ Observe({})

\* IdentityService.get_service
GetService(admin_token, service_id) ==
    LET req == [op |-> "get_service", admin_token |-> admin_token, service_id |-> service_id,
                at |-> now, ret |-> "ok"]
        a == validate_service_admin_token(admin_token)
    IN
    /\ SetCache(CacheAfter(admin_token))
    /\ IF a # "ok" THEN Fail(req, a)
       ELSE IF ServiceAPI_get(service_id) = None THEN Fail(req, "ItemNotFound")
       ELSE Fail(req, "ok")

\* delete_service, first loop: the endpoint rows of the service's templates
\* and the templates
cascade_endpoint_templates(service_id) ==
    LET gone == EndpointTemplateAPI_get_by_service(service_id) IN
    /\ endpoints' = [k \in {e \in DOMAIN endpoints : endpoints[e].endpoint_template_id \notin gone}
                        |-> endpoints[k]]
    /\ endpoint_templates' = [k \in DOMAIN endpoint_templates \ gone |-> endpoint_templates[k]]

\* the second loop without the inner loop over role_refs
cascade_roles_only(service_id) ==
    /\ grants' = grants
    /\ roles' = [r \in DOMAIN roles \ RoleAPI_get_by_service(service_id) |-> roles[r]]

\* delete_service, second loop: the grants of the service's roles and the roles
cascade_roles(service_id) ==
    LET gone == RoleAPI_get_by_service(service_id) IN
    /\ grants' = {g \in grants : g.role_id \notin gone}
    /\ roles' = [r \in DOMAIN roles \ gone |-> roles[r]]

\* IdentityService.delete_service; found records the rows the two loops met
DeleteService(admin_token, service_id) ==
    LET tpl == EndpointTemplateAPI_get_by_service(service_id)
        role == RoleAPI_get_by_service(service_id)
        req == [op |-> "delete_service", admin_token |-> admin_token, service_id |-> service_id,
                at |-> now, ret |-> "ok",
                found |-> [endpoint_templates |-> tpl,
                           endpoints |-> {e \in DOMAIN endpoints :
                                             endpoints[e].endpoint_template_id \in tpl},
                           roles |-> role,
                           role_refs |-> {g \in grants : g.role_id \in role}]]
        a == validate_service_admin_token(admin_token)
    IN
    /\ SetCache(CacheAfter(admin_token))
    /\ IF a # "ok" THEN Fail(req, a)
       ELSE IF ServiceAPI_get(service_id) = None THEN Fail(req, "ItemNotFound")
       ELSE /\ cascade_endpoint_templates(service_id)
            /\ cascade_roles(service_id)
            /\ services' = ServiceAPI_delete(service_id)
            /\ result' = req
            /\ UNCHANGED <<now, middleware, threads, tenants, users, tokens, credentials, uuid, serial>>
            /\ Observe({})

\* IdentityService.delete_endpoint_template: the ownership test on the
\* template's service, then the template's endpoints and the template; with
\* the service gone and a caller who is no administrator the message of the
\* fault reads dservice.name of None
DeleteEndpointTemplate(admin_token, endpoint_template_id) ==
    LET req == [op |-> "delete_endpoint_template", admin_token |-> admin_token,
                endpoint_template_id |-> endpoint_template_id, at |-> now, ret |-> "ok"]
        a == validate_service_admin_token(admin_token)
        dservice == ServiceAPI_get(endpoint_templates[endpoint_template_id].service_id)
    IN
    /\ SetCache(CacheAfter(admin_token))
    /\ IF a # "ok" THEN Fail(req, a)
       ELSE IF EndpointTemplateAPI_get(endpoint_template_id) = None
       THEN Fail(req, "ItemNotFound")
       ELSE IF /\ dservice # None
               /\ ~ is_owner(tokens[admin_token].user_id, dservice)
               /\ has_admin_role(admin_token) # "True"
       THEN Fail(req, "Unauthorized")
       ELSE IF dservice = None /\ has_admin_role(admin_token) # "True"
       THEN Fail(req, "AttributeError")
       ELSE /\ endpoints' = [k \in {e \in DOMAIN endpoints :
                                      endpoints[e].endpoint_template_id # endpoint_template_id}
                                |-> endpoints[k]]
            /\ endpoint_templates' = EndpointTemplateAPI_delete(endpoint_template_id)
            /\ result' = req
            /\ UNCHANGED <<now, middleware, threads, tenants, users, roles, grants, tokens,
                           credentials, uuid, services, serial>>
            /\ Observe({})

\* delete_service in handler thread t, through the first loop; every
\* repository call opens a session of its own, so other requests may run
\* before the thread reaches ROLE.get_by_service
DeleteServiceBegin(t, admin_token, service_id) ==
    LET req == [op |-> "delete_service", admin_token |-> admin_token, service_id |-> service_id,
                at |-> now, ret |-> "ok"]
        a == validate_service_admin_token(admin_token)
    IN
    /\ threads[t] = Idle
    /\ SetCache(CacheAfter(admin_token))
    /\ IF a # "ok" THEN Fail(req, a)
       ELSE IF ServiceAPI_get(service_id) = None THEN Fail(req, "ItemNotFound")
       ELSE /\ cascade_endpoint_templates(service_id)
            /\ threads' = [threads EXCEPT ![t] = [pc |-> "ROLE.get_by_service", req |-> req]]
            /\ UNCHANGED <<now, middleware, tenants, users, roles, grants, tokens, credentials, uuid,
                           services, serial, result>>
            /\ Observe({})

\* delete_service in thread t: the second loop
DeleteServiceRoles(t) ==
    /\ threads[t].pc = "ROLE.get_by_service"
    /\ cascade_roles(threads[t].req.service_id)
    /\ threads' = [threads EXCEPT ![t].pc = "SERVICE.delete"]
    /\ UNCHANGED <<now, middleware, tenants, users, tokens, credentials, uuid, catalog, cache, result>>
    /\ Observe({})

\* delete_service in thread t: SERVICE.delete, and the request returns
DeleteServiceEnd(t) ==
    /\ threads[t].pc = "SERVICE.delete"
    /\ services' = ServiceAPI_delete(threads[t].req.service_id)
    /\ threads' = [threads EXCEPT ![t] = Idle]
    /\ result' = [threads[t].req EXCEPT !.at = now]
    /\ UNCHANGED <<now, middleware, tenants, users, roles, grants, tokens, credentials, uuid,
                   endpoint_templates, endpoints, serial, cache>>
    /\ Observe({})

\* -------------------------------------------------------- input domains
TokenInputs == DOMAIN tokens \cup {None, "", "bogus"}
BelongsTo == {None, "", "None", "t0"}
Host == <<"api.example.com">>
HostWithPort == <<"api.example.com", "443">>

\* the tokens the administrator holds
AdminTokens == {k \in DOMAIN tokens : tokens[k].user_id = "ua"}

\* the password a caller who knows it sends for username
PasswordOf(username) == users[UserAPI_get_by_name(username)].password

\* ----------------------------------------------------- token life cycle
Next ==
    \/ Tick
    \/ \E username \in {"alice", "admin"}, tenant_id \in {None, "t0"} :
          Authenticate(username, PasswordOf(username), tenant_id, None)
    \/ Authenticate("alice", "guess", None, "acme")
    \/ \E token_id \in DOMAIN tokens : AuthenticateWithUnscopedToken(token_id, None, "acme")
    \/ \E signature \in {Signer_generate("SK", Host), Signer_generate("XX", Host)} :
          AuthenticateEc2("AK", signature, HostWithPort)
    \/ \E admin_token \in AdminTokens, enabled \in BOOLEAN :
          UpdateTenant(admin_token, "t0", "acme", enabled)
    \/ \E admin_token \in AdminTokens, enabled \in BOOLEAN :
          EnableDisableUser(admin_token, "u0", enabled)

Spec == Init /\ [][Next]_vars

\* ------------------------------------------------------ token validation
NextValidate ==
    \/ Tick
    \/ \E username \in {"alice", "admin"} :
          Authenticate(username, PasswordOf(username), None, None)
    \/ \E token_id \in TokenInputs, belongs_to \in BelongsTo, is_check_token \in BOOLEAN :
          ValidateToken(token_id, belongs_to, is_check_token)

SpecValidate == Init /\ [][NextValidate]_vars

\* ------------------------------------- disabled users and tenants
NextDisabled ==
    \/ \E username \in {"alice", "admin"} :
          Authenticate(username, PasswordOf(username), None, None)
    \/ \E token_id \in DOMAIN tokens, is_check_token \in BOOLEAN :
          ValidateToken(token_id, None, is_check_token)
    \/ \E admin_token \in AdminTokens, enabled \in BOOLEAN :
          UpdateTenant(admin_token, "t0", "acme", enabled)
    \/ \E admin_token \in AdminTokens, enabled \in BOOLEAN :
          EnableDisableUser(admin_token, "u0", enabled)
    \/ \E admin_token \in AdminTokens, tenant_id \in {None, "t0"} :
          SetUserTenant(admin_token, "u0", tenant_id)

SpecDisabled == Init /\ [][NextDisabled]_vars

\* ------------------------------------------------------------ revocation
NextRevoke ==
    \/ Tick
    \/ \E username \in {"alice", "admin"} :
          Authenticate(username, PasswordOf(username), None, None)
    \/ \E token_id \in DOMAIN tokens \cup {"bogus"}, is_check_token \in BOOLEAN :
          ValidateToken(token_id, None, is_check_token)
    \/ \E admin_token \in DOMAIN tokens, token_id \in DOMAIN tokens \cup {"bogus"} :
          RevokeToken(admin_token, token_id)

SpecRevoke == Init /\ [][NextRevoke]_vars

\* ------------------------------------------- administration and grants
NextAdmin ==
    \/ \E username \in {"alice", "admin"} :
          Authenticate(username, PasswordOf(username), None, None)
    \/ \E admin_token \in DOMAIN tokens : CreateTenant(admin_token, "other", TRUE)
    \/ \E admin_token \in DOMAIN tokens, tenant_id \in DOMAIN tenants \ {"t0"} :
          UpdateTenant(admin_token, tenant_id, "renamed", TRUE)
    \/ \E admin_token \in DOMAIN tokens, tenant_id \in DOMAIN tenants \ {"t0"} :
          DeleteTenant(admin_token, tenant_id)
    \/ \E admin_token \in DOMAIN tokens, role_id \in {"r1", "r2"}, tenant_id \in {None, "t0"} :
          AddRoleToUser(admin_token, "u0", role_id, tenant_id)
    \/ \E admin_token \in DOMAIN tokens, g \in grants :
          /\ g.user_id # "ua"
          /\ RemoveRoleFromUser(admin_token, g.user_id, g.role_id, g.tenant_id)
    \/ \E token_id \in DOMAIN tokens : HasAdminRole(token_id)
    \/ \E token_id \in DOMAIN tokens : HasServiceAdminRole(token_id)

SpecAdmin == Init /\ [][NextAdmin]_vars

\* ------------------------------------------------ references of tokens
NextRefs ==
    \/ \E username \in {"alice", "admin", "bob"}, tenant_id \in {None, "t0"} :
          /\ UserAPI_get_by_name(username) # None
          /\ Authenticate(username, PasswordOf(username), tenant_id, None)
    \/ \E admin_token \in AdminTokens, token_id \in DOMAIN tokens :
          RevokeToken(admin_token, token_id)
    \/ \E admin_token \in AdminTokens : CreateUser(admin_token, "bob", "b", TRUE, None)
    \/ \E admin_token \in AdminTokens, user_id \in DOMAIN users \ {"ua"},
          tenant_id \in DOMAIN tenants \cup {None} :
          SetUserTenant(admin_token, user_id, tenant_id)
    \/ \E admin_token \in AdminTokens, user_id \in DOMAIN users \ {"ua"} :
          DeleteUser(admin_token, user_id)
    \/ \E admin_token \in AdminTokens, tenant_id \in DOMAIN tenants :
          DeleteTenant(admin_token, tenant_id)
    \/ \E admin_token \in AdminTokens, user_id \in DOMAIN users \ {"ua"} :
          AddRoleToUser(admin_token, user_id, "r3", "t0")
    \/ \E admin_token \in AdminTokens, g \in grants :
          /\ g.user_id # "ua"
          /\ RemoveRoleFromUser(admin_token, g.user_id, g.role_id, g.tenant_id)

SpecRefs == Init /\ [][NextRefs]_vars

\* ------------------------------------- concurrent authentications
NextRace ==
    \/ Tick
    \/ \E t \in Threads : AuthenticateBegin(t, "alice", PasswordOf("alice"))
    \/ \E t \in Threads : AuthenticateCreate(t)
    \/ \E token_id \in DOMAIN tokens : ValidateToken(token_id, None, FALSE)

SpecRace == Init /\ [][NextRace]_vars

\* ------------------------------------------ services and their catalog
ServiceNames == {"nova", "glance"}
ServiceIds == {Key("svc", n) : n \in 1..MaxSerial}

NextService ==
    \/ Authenticate("admin", PasswordOf("admin"), None, None)
    \/ \E admin_token \in AdminTokens, name \in ServiceNames :
          CreateService(admin_token, name, "compute")
    \/ \E admin_token \in AdminTokens : AddEndpointTemplate(admin_token, "nova", "compute")
    \/ \E admin_token \in AdminTokens, id \in DOMAIN endpoint_templates :
          /\ EndpointTemplateAPI_endpoint_get_by_endpoint_template(id) = {}
          /\ CreateEndpointForTenant(admin_token, "t0", id)
    \/ \E admin_token \in AdminTokens, name \in ServiceNames :
          /\ RoleAPI_get_by_name(name \o ":Admin") = None
          /\ CreateRole(admin_token, name \o ":Admin", None)
    \/ \E admin_token \in AdminTokens, role_id \in DOMAIN roles :
          /\ roles[role_id].service_id # None
          /\ AddRoleToUser(admin_token, "u0", role_id, None)
    \/ \E admin_token \in AdminTokens, service_id \in DOMAIN services :
          DeleteService(admin_token, service_id)
    \/ \E admin_token \in AdminTokens, service_id \in ServiceIds \ DOMAIN services :
          GetService(admin_token, service_id)

SpecService == Init /\ [][NextService]_vars

\* ----------------------- delete_service among concurrent requests
NextCascade ==
    \/ Authenticate("admin", PasswordOf("admin"), None, None)
    \/ \E admin_token \in AdminTokens : CreateService(admin_token, "nova", "compute")
    \/ \E admin_token \in AdminTokens, service_id \in DOMAIN services :
          DeleteServiceBegin("w1", admin_token, service_id)
    \/ DeleteServiceRoles("w1")
    \/ DeleteServiceEnd("w1")
    \/ \E admin_token \in AdminTokens : AddEndpointTemplate(admin_token, "nova", "compute")
    \/ \E admin_token \in AdminTokens, id \in DOMAIN endpoint_templates :
          /\ EndpointTemplateAPI_endpoint_get_by_endpoint_template(id) = {}
          /\ CreateEndpointForTenant(admin_token, "t0", id)
    \/ \E admin_token \in AdminTokens :
          /\ RoleAPI_get_by_name("nova:Admin") = None
          /\ CreateRole(admin_token, "nova:Admin", None)
    \/ \E admin_token \in AdminTokens, role_id \in DOMAIN roles :
          /\ roles[role_id].service_id # None
          /\ AddRoleToUser(admin_token, "u0", role_id, None)

SpecCascade == Init /\ [][NextCascade]_vars

\* ------------------------------------------- tenants and what refers to them
NextTenants ==
    \/ \E username \in {"alice", "admin"} :
          Authenticate(username, PasswordOf(username), None, None)
    \/ \E admin_token \in AdminTokens : CreateTenant(admin_token, "other", TRUE)
    \/ \E admin_token \in AdminTokens, tenant_id \in DOMAIN tenants \cup {None} :
          SetUserTenant(admin_token, "u0", tenant_id)
    \/ \E admin_token \in AdminTokens, tenant_id \in DOMAIN tenants :
          AddRoleToUser(admin_token, "u0", "r3", tenant_id)
    \/ \E admin_token \in AdminTokens, g \in grants :
          /\ g.user_id # "ua"
          /\ RemoveRoleFromUser(admin_token, g.user_id, g.role_id, g.tenant_id)
    \/ \E admin_token \in DOMAIN tokens, tenant_id \in DOMAIN tenants :
          DeleteTenant(admin_token, tenant_id)

SpecTenants == Init /\ [][NextTenants]_vars

\* ------------------------------------------------------ role grants
NextGrants ==
    \/ \E username \in {"alice", "admin"} :
          Authenticate(username, PasswordOf(username), None, None)
    \/ \E admin_token \in DOMAIN tokens, user_id \in {"u0", "nobody"},
          role_id \in {"r2", "r3", "norole"}, tenant_id \in {None, "t0", "tx"} :
          AddRoleToUser(admin_token, user_id, role_id, tenant_id)
    \/ \E admin_token \in DOMAIN tokens, g \in grants :
          /\ g.user_id # "ua"
          /\ RemoveRoleFromUser(admin_token, g.user_id, g.role_id, g.tenant_id)

SpecGrants == Init /\ [][NextGrants]_vars

\* ------------------------------------- concurrent add_role_to_user
NextGrantRace ==
    \/ Authenticate("admin", PasswordOf("admin"), None, None)
    \/ \E t \in Threads, admin_token \in AdminTokens, tenant_id \in {None, "t0"} :
          AddRoleToUserBegin(t, admin_token, "u0", "r3", tenant_id)
    \/ \E t \in Threads : AddRoleToUserEnd(t)
    \/ \E admin_token \in AdminTokens, g \in grants :
          /\ g.user_id # "ua"
          /\ RemoveRoleFromUser(admin_token, g.user_id, g.role_id, g.tenant_id)

SpecGrantRace == Init /\ [][NextGrantRace]_vars

\* ------------------------------------------------- roles and their names
RoleNames == {"Member", "nova:Admin", "ghost:Admin", "swift:v1:Admin"}

NextRoles ==
    \/ Authenticate("admin", PasswordOf("admin"), None, None)
    \/ \E admin_token \in AdminTokens, name \in {"nova", "swift:v1"} :
          CreateService(admin_token, name, "compute")
    \/ \E admin_token \in AdminTokens, name \in RoleNames,
          service_id \in DOMAIN services \cup {None, "", "nosvc"} :
          CreateRole(admin_token, name, service_id)
    \/ \E admin_token \in AdminTokens, service_id \in DOMAIN services :
          DeleteService(admin_token, service_id)

SpecRoles == Init /\ [][NextRoles]_vars

\* ------------------------------------------- names of tenants and users
NextNames ==
    \/ Authenticate("admin", PasswordOf("admin"), None, None)
    \/ \E admin_token \in AdminTokens, name \in {"acme", "other"} :
          CreateTenant(admin_token, name, TRUE)
    \/ \E admin_token \in AdminTokens, tenant_id \in DOMAIN tenants, name \in {"acme", "other"} :
          UpdateTenant(admin_token, tenant_id, name, TRUE)
    \/ \E admin_token \in AdminTokens, name \in {"alice", "bob"} :
          CreateUser(admin_token, name, None, TRUE, None)
    \/ \E admin_token \in AdminTokens, user_id \in DOMAIN users \ {"ua"}, name \in {"alice", "bob"} :
          UpdateUser(admin_token, user_id, name)
    \/ \E admin_token \in AdminTokens, user_id \in DOMAIN users \ {"ua"},
          user_name \in {"alice", "bob", "carol"} :
          CreatePasswordCredentials(admin_token, user_id, user_name, "pw")
    \/ \E admin_token \in AdminTokens, user_id \in DOMAIN users \ {"ua"},
          user_name \in {"alice", "bob", "carol"} :
          UpdatePasswordCredentials(admin_token, user_id, user_name, "pw2")

SpecNames == Init /\ [][NextNames]_vars

\* ------------------------------------------- services and their owners
ServiceTypes == {"compute", "image"}

NextOwners ==
    \/ \E username \in {"admin", "alice"} :
          Authenticate(username, PasswordOf(username), None, None)
    \/ \E admin_token \in AdminTokens : AddRoleToUser(admin_token, "u0", "r2", None)
    \/ \E admin_token \in DOMAIN tokens, name \in ServiceNames, type \in ServiceTypes :
          CreateService(admin_token, name, type)
    \/ \E admin_token \in AdminTokens, service_id \in DOMAIN services :
          DeleteService(admin_token, service_id)

SpecOwners == Init /\ [][NextOwners]_vars

\* --------------------------------- roles of services and who owns them
NextOwnership ==
    \/ \E username \in {"admin", "alice"} :
          Authenticate(username, PasswordOf(username), None, None)
    \/ \E admin_token \in AdminTokens, role_id \in DOMAIN roles \ {"r3"} :
          AddRoleToUser(admin_token, "u0", role_id, None)
    \/ \E admin_token \in DOMAIN tokens : CreateService(admin_token, "nova", "compute")
    \/ \E admin_token \in DOMAIN tokens, service_id \in DOMAIN services \cup {None} :
          CreateRole(admin_token, "nova:Admin", service_id)
    \/ \E admin_token \in DOMAIN tokens, role_id \in DOMAIN roles \ {"r1", "r2"} :
          DeleteRole(admin_token, role_id)

SpecOwnership == Init /\ [][NextOwnership]_vars

\* ------------------------- what a service-admin may remove of a service
NextGuard ==
    \/ \E username \in {"admin", "alice"} :
          Authenticate(username, PasswordOf(username), None, None)
    \/ \E admin_token \in AdminTokens, role_id \in DOMAIN roles \ {"r1", "r3"} :
          AddRoleToUser(admin_token, "u0", role_id, None)
    \/ \E admin_token \in AdminTokens :
          /\ ServiceAPI_get_by_name("nova") = None
          /\ CreateService(admin_token, "nova", "compute")
    \/ \E admin_token \in AdminTokens :
          /\ RoleAPI_get_by_name("nova:Admin") = None
          /\ CreateRole(admin_token, "nova:Admin", None)
    \/ \E admin_token \in AdminTokens :
          /\ DOMAIN endpoint_templates = {}
          /\ AddEndpointTemplate(admin_token, "nova", "compute")
    \/ \E admin_token \in DOMAIN tokens, role_id \in DOMAIN roles \ {"r1", "r2", "r3"} :
          DeleteRole(admin_token, role_id)
    \/ \E admin_token \in DOMAIN tokens, id \in DOMAIN endpoint_templates :
          DeleteEndpointTemplate(admin_token, id)
    \/ \E admin_token \in DOMAIN tokens, service_id \in DOMAIN services :
          DeleteService(admin_token, service_id)

SpecGuard == Init /\ [][NextGuard]_vars

\* ----------------------------- authentication with a token already held
NextUnscoped ==
    \/ \E username \in {"admin", "alice"} :
          Authenticate(username, PasswordOf(username), None, None)
    \/ \E admin_token \in AdminTokens : CreateTenant(admin_token, "other", TRUE)
    \/ \E admin_token \in AdminTokens, enabled \in BOOLEAN :
          UpdateTenant(admin_token, "t0", "acme", enabled)
    \/ \E admin_token \in AdminTokens : SetUserTenant(admin_token, "u0", None)
    \/ \E admin_token \in AdminTokens, tenant_id \in DOMAIN tenants :
          AddRoleToUser(admin_token, "u0", "r3", tenant_id)
    \/ \E token_id \in DOMAIN tokens \cup {"kx"}, tenant_id \in DOMAIN tenants \cup {"tx", None} :
          AuthenticateWithUnscopedToken(token_id, tenant_id, None)
    \/ \E token_id \in DOMAIN tokens, tenant_name \in {"acme", "other"} :
          AuthenticateWithUnscopedToken(token_id, None, tenant_name)

SpecUnscoped == Init /\ [][NextUnscoped]_vars

\* --------------------------- the cached role ids among request threads
\* the administrator's tokens that an authenticate has returned to its
\* caller: no thread is still inside the authenticate that made them
ReturnedAdminTokens ==
    {k \in AdminTokens :
        \A t \in Threads : "token_id" \in DOMAIN threads[t] => threads[t].token_id # k}

NextInitialize ==
    \/ \E t \in Threads : AuthenticateBegin(t, "admin", PasswordOf("admin"))
    \/ \E t \in Threads : AuthenticateStore(t)
    \/ \E t \in Threads : InitializeTest(t)
    \/ \E t \in Threads : InitializeLookup(t)
    \/ \E t \in Threads : InitializePublish(t)
    \/ \E t \in Threads : AuthenticateEnd(t)
    \/ \E admin_token \in ReturnedAdminTokens : DeleteRole(admin_token, "r2")
    \/ \E admin_token \in ReturnedAdminTokens :
          CreateRole(admin_token, SERVICE_ADMIN_ROLE_NAME, None)

SpecInitialize == Init /\ [][NextInitialize]_vars

\* ------------------------------------ authentication that names a tenant
NextScoped ==
    \/ Authenticate("admin", PasswordOf("admin"), None, None)
    \/ \E admin_token \in AdminTokens, enabled \in BOOLEAN :
          CreateTenant(admin_token, "other", enabled)
    \/ \E admin_token \in AdminTokens, enabled \in BOOLEAN :
          UpdateTenant(admin_token, "t0", "acme", enabled)
    \/ \E admin_token \in AdminTokens, enabled \in BOOLEAN :
          EnableDisableUser(admin_token, "u0", enabled)
    \/ \E admin_token \in AdminTokens, tenant_id \in DOMAIN tenants \ {"t0"} :
          AddRoleToUser(admin_token, "u0", "r3", tenant_id)
    \/ \E username \in {"alice", "nobody"}, password \in {"p", "bad"},
          tenant_id \in DOMAIN tenants \cup {"tx"} :
          Authenticate(username, password, tenant_id, None)
    \/ \E username \in {"alice", "nobody"}, password \in {"p", "bad"},
          tenant_name \in {"acme", "other"} :
          Authenticate(username, password, None, tenant_name)

SpecScoped == Init /\ [][NextScoped]_vars

\* ---------------------------------------------------- EC2 credentials
\* "[::1]:8773", an IPv6 literal with a port, as host.split(":") gives it
HostIPv6WithPort == <<"[", "", "1]", "8773">>
Ec2Hosts == {Host, HostWithPort, HostIPv6WithPort}

\* the signatures a caller presents: made with the stored secret or with
\* another one, over the host with or without its port
Ec2Signatures ==
    {Signer_generate(secret, host) :
        secret \in {"SK", "XX"},
        host \in {Host, HostWithPort, HostIPv6WithPort, SubSeq(HostIPv6WithPort, 1, 3)}}

NextEc2 ==
    \/ Tick
    \/ \E access \in {"AK", "ZZ"}, signature \in Ec2Signatures, host \in Ec2Hosts :
          AuthenticateEc2(access, signature, host)

SpecEc2 == Init /\ [][NextEc2]_vars

\* ------------------------------------------------------------ pagination
\* the place of a tenant id in ORDER BY id: the ids are Uuid("t", n) with
\* one digit, which sort as n does
Rank(id) == CHOOSE n \in 0..MaxUuid : Uuid("t", n) = id

\* query.order_by(id).all()
RECURSIVE order_by_id(_)
order_by_id(ids) ==
    IF ids = {} THEN << >>
    ELSE LET least == CHOOSE i \in ids : \A j \in ids : Rank(i) <= Rank(j)
         IN <<least>> \o order_by_id(ids \ {least})

\* query.order_by(id.desc()).all()
RECURSIVE order_by_id_desc(_)
order_by_id_desc(ids) ==
    IF ids = {} THEN << >>
    ELSE LET most == CHOOSE i \in ids : \A j \in ids : Rank(j) <= Rank(i)
         IN <<most>> \o order_by_id_desc(ids \ {most})

\* rows.limit(n)
limited(rows, n) == SubSeq(rows, 1, IF n < Len(rows) THEN n ELSE Len(rows))

\* the end of get_page_markers: the last row of each neighbouring page, or
\* the last and first row of the query, and the two tests against marker and
\* last
page_markers(ids, marker, next_page, prev_page) ==
    LET first == order_by_id(ids)[1]
        last == order_by_id_desc(ids)[1]
        n == IF Len(next_page) = 0 THEN last ELSE next_page[Len(next_page)]
        p == IF Len(prev_page) = 0 THEN first ELSE prev_page[Len(prev_page)]
    IN [prev |-> IF p = marker THEN None ELSE p,
        next |-> IF n = last THEN None ELSE n]

\* get_page that pages from the lowest id upwards
TenantAPI_get_page_ascending(marker, limit) ==
    IF Truthy(marker)
    THEN limited(order_by_id({t \in DOMAIN tenants : Rank(t) > Rank(marker)}), limit)
    ELSE limited(order_by_id(DOMAIN tenants), limit)

\* TenantAPI.get_page
TenantAPI_get_page(marker, limit) ==
    IF Truthy(marker)
    THEN limited(order_by_id_desc({t \in DOMAIN tenants : Rank(t) > Rank(marker)}), limit)
    ELSE limited(order_by_id_desc(DOMAIN tenants), limit)

\* TenantAPI.get_page_markers over the rows ids
get_page_markers(ids, marker, limit) ==
    IF ids = {} THEN [prev |-> None, next |-> None]
    ELSE LET m == IF marker = None THEN order_by_id(ids)[1] ELSE marker
         IN page_markers(ids, m,
                limited(order_by_id({t \in ids : Rank(t) > Rank(m)}), limit),
                limited(order_by_id_desc({t \in ids : Rank(t) < Rank(m)}), limit))

\* TenantAPI.get_page_markers
TenantAPI_get_page_markers(marker, limit) == get_page_markers(DOMAIN tenants, marker, limit)

\* tenants.id, the primary key of the row whose uid is t: a text that is no uid
TenantPk(t) == "pk" \o ToString(Rank(t))

\* TenantAPI._uid_to_id
TenantAPI_uid_to_id(uid) == IF uid \in DOMAIN tenants THEN TenantPk(uid) ELSE None

\* user.tenant_id = api.TENANT._uid_to_id(user.tenant_id): the user object
\* after a call of tenants_for_user_get_page or of
\* tenants_for_user_get_page_markers
uid_to_id_applied(user) == [user EXCEPT !.tenant_id = TenantAPI_uid_to_id(@)]

\* q3 of tenants_for_user_get_page and tenants_for_user_get_page_markers: the
\* tenants of the user's grants and the tenant whose primary key is
\* user.tenant_id
tenants_for_user(user) ==
    {t \in DOMAIN tenants : \/ \E g \in grants : g.user_id = user.id /\ g.tenant_id = t
                            \/ TenantPk(t) = user.tenant_id}

\* TenantAPI.tenants_for_user_get_page
TenantAPI_tenants_for_user_get_page(user, marker, limit) ==
    LET q3 == tenants_for_user(uid_to_id_applied(user)) IN
    IF Truthy(marker)
    THEN limited(order_by_id_desc({t \in q3 : Rank(t) > Rank(marker)}), limit)
    ELSE limited(order_by_id_desc(q3), limit)

\* TenantAPI.tenants_for_user_get_page_markers: both neighbouring pages are
\* queried with id > marker
TenantAPI_tenants_for_user_get_page_markers(user, marker, limit) ==
    LET q3 == tenants_for_user(uid_to_id_applied(user)) IN
    IF q3 = {} THEN [prev |-> None, next |-> None]
    ELSE LET m == IF marker = None THEN order_by_id(q3)[1] ELSE marker
         IN page_markers(q3, m,
                limited(order_by_id({t \in q3 : Rank(t) > Rank(m)}), limit),
                limited(order_by_id_desc({t \in q3 : Rank(t) > Rank(m)}), limit))

\* IdentityService.get_links
get_links(url, prev, next, limit) ==
    LET href(m) == url \o "?marker=" \o m \o "&limit=" \o ToString(limit)
    IN (IF Truthy(prev) THEN << [rel |-> "prev", href |-> href(prev)] >> ELSE << >>)
       \o (IF Truthy(next) THEN << [rel |-> "next", href |-> href(next)] >> ELSE << >>)

\* IdentityService.get_tenants: values is the page, prev and next the two
\* markers; the second adapter call is given the user object the first one
\* changed.  Observers: paged and marked are the rows the page and the
\* markers were taken from, trail the answers of the requests by which a
\* client came to this one, walked, and this answer
ListTenants(admin_token, marker, limit, url, is_service_operation, walked) ==
    LET req == [op |-> "get_tenants", admin_token |-> admin_token, marker |-> marker,
                limit |-> limit, is_service_operation |-> is_service_operation,
                at |-> now, ret |-> "ok"]
        a == IF is_service_operation THEN validate_token(admin_token, None, FALSE)
             ELSE validate_admin_token(admin_token)
        user == [id |-> tokens[admin_token].user_id,
                 tenant_id |-> users[tokens[admin_token].user_id].tenant_id]
        dtenants == IF is_service_operation
                    THEN TenantAPI_tenants_for_user_get_page(user, marker, limit)
                    ELSE TenantAPI_get_page(marker, limit)
        markers == IF is_service_operation
                   THEN TenantAPI_tenants_for_user_get_page_markers(uid_to_id_applied(user),
                                                                    marker, limit)
                   ELSE TenantAPI_get_page_markers(marker, limit)
        paged == IF is_service_operation THEN tenants_for_user(uid_to_id_applied(user))
                 ELSE DOMAIN tenants
        marked == IF is_service_operation
                  THEN tenants_for_user(uid_to_id_applied(uid_to_id_applied(user)))
                  ELSE DOMAIN tenants
    IN
    /\ IF is_service_operation THEN UNCHANGED cache ELSE SetCache(CacheAfter(admin_token))
    /\ IF a # "ok" THEN Fail(req, a)
       ELSE /\ result' = [op |-> "get_tenants", admin_token |-> admin_token, marker |-> marker,
                          limit |-> limit, is_service_operation |-> is_service_operation,
                          at |-> now, ret |-> "ok", values |-> dtenants,
                          prev |-> markers.prev, next |-> markers.next,
                          links |-> get_links(url, markers.prev, markers.next, limit),
                          paged |-> paged, marked |-> marked,
                          trail |-> Append(walked, [marker |-> marker, values |-> dtenants,
                                                    prev |-> markers.prev,
                                                    next |-> markers.next])]
            /\ UNCHANGED <<now, middleware, catalog, threads, tenants, users, roles, grants,
                           tokens, credentials, uuid>>
            /\ Observe({})

\* a request of get_tenants that follows no link
GetTenants(admin_token, marker, limit, url, is_service_operation) ==
    ListTenants(admin_token, marker, limit, url, is_service_operation, << >>)

\* the client follows a link of the answer it was given last (get_links
\* gives none for a null marker: the walk forward has ended, the walk
\* backward asks for the first page), with the same token and limit
FollowLink(rel, url) ==
    /\ result.op = "get_tenants" /\ result.ret = "ok"
    /\ Len(result.trail) < MaxTrail
    /\ rel = "next" => result.next # None
    /\ ListTenants(result.admin_token, IF rel = "next" THEN result.next ELSE result.prev,
                   result.limit, url, result.is_service_operation, result.trail)

\* markers a client can send: none, or the id of a tenant there is or was
Markers == {None} \cup {Uuid("t", n) : n \in 0..MaxUuid}

NextPages ==
    \/ \E username \in {"admin", "alice"} :
          Authenticate(username, PasswordOf(username), None, None)
    \/ \E admin_token \in AdminTokens, name \in {"other", "third"} :
          CreateTenant(admin_token, name, TRUE)
    \/ \E admin_token \in AdminTokens : SetUserTenant(admin_token, "u0", None)
    \/ \E admin_token \in AdminTokens, tenant_id \in DOMAIN tenants :
          DeleteTenant(admin_token, tenant_id)
    \/ \E admin_token \in DOMAIN tokens, marker \in Markers, limit \in 1..MaxLimit,
          is_service_operation \in BOOLEAN :
          GetTenants(admin_token, marker, limit, "/tenants", is_service_operation)

SpecPages == Init /\ [][NextPages]_vars

\* a user who lists the tenants it has to do with
NextUserPages ==
    \/ \E username \in {"admin", "alice"} :
          Authenticate(username, PasswordOf(username), None, None)
    \/ \E admin_token \in AdminTokens : CreateTenant(admin_token, "other", TRUE)
    \/ \E admin_token \in AdminTokens, tenant_id \in DOMAIN tenants \cup {None} :
          SetUserTenant(admin_token, "u0", tenant_id)
    \/ \E admin_token \in AdminTokens, tenant_id \in DOMAIN tenants :
          AddRoleToUser(admin_token, "u0", "r3", tenant_id)
    \/ \E admin_token \in DOMAIN tokens \ AdminTokens, marker \in Markers, limit \in 1..MaxLimit :
          GetTenants(admin_token, marker, limit, "/tenants", TRUE)

SpecUserPages == Init /\ [][NextUserPages]_vars

\* a client that walks the pages of all tenants
NextWalk ==
    \/ Authenticate("admin", PasswordOf("admin"), None, None)
    \/ \E admin_token \in AdminTokens, name \in {"other", "third", "fourth"} :
          CreateTenant(admin_token, name, TRUE)
    \/ \E admin_token \in AdminTokens, marker \in Markers, limit \in 1..MaxLimit :
          GetTenants(admin_token, marker, limit, "/tenants", FALSE)
    \/ \E rel \in {"prev", "next"} : FollowLink(rel, "/tenants")

SpecWalk == Init /\ [][NextWalk]_vars

\* ---------------------------------------------------- keystone/models.py
\* Python values are written as their literals: a str in quotes ('true'),
\* an int in digits (1), True, False, and None
PyStr(text) == "'" \o text \o "'"

\* isinstance(v, basestring)
isinstance_basestring(v) == Len(v) >= 2 /\ SubSeq(v, 1, 1) = "'"

\* isinstance(v, int); bool is a subclass of int
isinstance_int(v) ==
    \/ v \in {"True", "False"}
    \/ Len(v) > 0 /\ \A i \in 1..Len(v) : \E n \in 0..9 : SubSeq(v, i, i) = ToString(n)

\* the characters of str(v)
Text(v) ==
    IF isinstance_basestring(v) THEN SubSeq(v, 2, Len(v) - 1)
    ELSE IF v = None THEN "None" ELSE v

\* str(v)
str(v) == PyStr(Text(v))

\* s.lower() on the characters of s
UpperCase == "ABCDEFGHIJKLMNOPQRSTUVWXYZ"
LowerCase == "abcdefghijklmnopqrstuvwxyz"
RECURSIVE lower(_)
lower(s) ==
    IF Len(s) = 0 THEN ""
    ELSE LET c == SubSeq(s, 1, 1)
             up == {i \in 1..26 : SubSeq(UpperCase, i, i) = c}
         IN (IF up = {} THEN c ELSE LET i == CHOOSE i \in up : TRUE IN SubSeq(LowerCase, i, i))
            \o lower(SubSeq(s, 2, Len(s)))

\* json.dumps and json.loads of one value: a str in double quotes, an int
\* in digits, true, false, null
json_dumps_value(v) ==
    IF v = None THEN "null"
    ELSE IF v = "True" THEN "true"
    ELSE IF v = "False" THEN "false"
    ELSE IF isinstance_basestring(v) THEN "\"" \o Text(v) \o "\""
    ELSE v
json_loads_value(j) ==
    IF j = "null" THEN None
    ELSE IF j = "true" THEN "True"
    ELSE IF j = "false" THEN "False"
    ELSE IF SubSeq(j, 1, 1) = "\"" THEN PyStr(SubSeq(j, 2, Len(j) - 1))
    ELSE j

\* json.dumps / json.loads of {root: {key: value, ...}}; root is None for
\* a document that is the inner object alone
json_dumps(d) == [root |-> d.root, body |-> [k \in DOMAIN d.body |-> json_dumps_value(d.body[k])]]
json_loads(s) == [root |-> s.root, body |-> [k \in DOMAIN s.body |-> json_loads_value(s.body[k])]]

\* Resource.__init__(**kw): the keywords become the contract attributes and
\* the items of the dict, None values included
Resource(cls, kw) == [cls |-> cls, contract_attributes |-> DOMAIN kw, d |-> kw]

\* Resource.__getattr__ / __getitem__ of a contract attribute
Resource_getattr(self, name) == dict_get(self.d, name, None)

\* Resource.__setattr__ of a contract attribute
Resource_setattr(self, name, value) ==
    IF value # None THEN [self EXCEPT !.d = dict_set(self.d, name, value)] ELSE self

\* the keywords of a constructor call next to the defaults of its signature
Keywords(fields, kw) ==
    [k \in fields \cup DOMAIN kw |-> IF k \in DOMAIN kw THEN kw[k] ELSE None]

\* Service.__init__
Service(kw) ==
    LET self == Resource("Service", Keywords({"id", "name", "type", "description"}, kw))
    IN IF isinstance_int(Resource_getattr(self, "id"))
       THEN Resource_setattr(self, "id", str(Resource_getattr(self, "id"))) ELSE self

\* Tenant.__init__
Tenant(kw) ==
    LET self == Resource("Tenant", Keywords({"id", "name", "description", "enabled"}, kw))
        s1 == IF isinstance_int(Resource_getattr(self, "id"))
              THEN Resource_setattr(self, "id", str(Resource_getattr(self, "id"))) ELSE self
    IN IF isinstance_basestring(Resource_getattr(s1, "enabled"))
       THEN Resource_setattr(s1, "enabled",
                IF lower(Text(Resource_getattr(s1, "enabled"))) = "true" THEN "True" ELSE "False")
       ELSE s1

\* Role.__init__
Role(kw) ==
    LET self == Resource("Role", Keywords({"id", "name", "description", "service_id",
                                           "tenant_id"}, kw))
        s1 == IF isinstance_int(Resource_getattr(self, "id"))
              THEN Resource_setattr(self, "id", str(Resource_getattr(self, "id"))) ELSE self
    IN IF isinstance_int(Resource_getattr(s1, "service_id"))
       THEN Resource_setattr(s1, "service_id", str(Resource_getattr(s1, "service_id")))
       ELSE s1

\* cls(**params)
New(cls, kw) ==
    IF cls = "Service" THEN Service(kw) ELSE IF cls = "Tenant" THEN Tenant(kw) ELSE Role(kw)

\* Resource.strip_null_fields
strip_null_fields(dict_object) ==
    [k \in {k \in DOMAIN dict_object : dict_object[k] # None} |-> dict_object[k]]

\* Resource.to_dict
to_dict(self, root_name) == [root |-> root_name, body |-> strip_null_fields(self.d)]

\* Resource.apply_name_mappings: for outside, inside in maps: if inside in
\* target: target[outside] = target.pop(inside).  contained is the set of
\* keys for which `in target` is true: the keys of a plain dict, and the
\* contract attributes as well for a Resource; pop raises KeyError for a
\* key that the dict does not hold
apply_name_mappings(target, contained, name_mappings) ==
    LET moved == {outside \in DOMAIN name_mappings : name_mappings[outside] \in contained}
        popped == {name_mappings[outside] : outside \in moved}
    IN IF \E inside \in popped : inside \notin DOMAIN target
       THEN [ret |-> "KeyError", d |-> target]
       ELSE [ret |-> "ok",
             d |-> [k \in (DOMAIN target \ popped) \cup moved |->
                      IF k \in moved THEN target[name_mappings[k]] ELSE target[k]]]

\* hints: no hints, and the ones Role and Tenant fill in
NoHints == [contract_attributes |-> {}, maps |-> << >>]
RoleMaps == [k \in {"serviceId", "tenantId"} |->
               IF k = "serviceId" THEN "service_id" ELSE "tenant_id"]
RoleHints == [contract_attributes |-> {"id", "name", "service_id", "tenant_id", "description"},
              maps |-> RoleMaps]
TenantXmlHints == [contract_attributes |-> {"id", "name", "description", "enabled"},
                   maps |-> << >>]

\* Resource.to_json: to_dict, the name mappings on the inner dict, json.dumps
Resource_to_json(self, root_name, hints) ==
    LET d == to_dict(self, root_name)
        mapped == apply_name_mappings(d.body, DOMAIN d.body, hints.maps)
    IN json_dumps([root |-> d.root, body |-> mapped.d])

\* Service.to_json, Tenant.to_json, Role.to_json; Service.to_dict has the
\* root OS-KSADM:service
to_json(self) ==
    IF self.cls = "Service" THEN Resource_to_json(self, "OS-KSADM:service", NoHints)
    ELSE IF self.cls = "Tenant" THEN Resource_to_json(self, "tenant", NoHints)
    ELSE Resource_to_json(self, "role", RoleHints)

\* Resource.from_json: the object under model_name if that is the root,
\* cls(**params) from the contract attributes of the hints or cls(), update,
\* the name mappings; an uncaught KeyError is no BadRequestFault
Resource_from_json(cls, json_str, hints, model_name) ==
    LET loaded == json_loads(json_str)
        object == IF loaded.root = model_name \/ loaded.root = None THEN loaded.body
                  ELSE [k \in {loaded.root} |-> "{...}"]
        params == [name \in hints.contract_attributes |-> dict_get(object, name, None)]
        model_object == New(cls, params)
        updated == [k \in DOMAIN model_object.d \cup DOMAIN object |->
                       IF k \in DOMAIN object THEN object[k] ELSE model_object.d[k]]
        mapped == apply_name_mappings(updated,
                                      model_object.contract_attributes \cup DOMAIN updated,
                                      hints.maps)
    IN [ret |-> mapped.ret, entity |-> [model_object EXCEPT !.d = mapped.d]]

\* Resource.from_xml on an element with attributes: params from the
\* attributes named like contract attributes, write_xml_to_dict (every
\* attribute, as text), the name mappings
Resource_from_xml(cls, xml_str, hints) ==
    LET params == [name \in hints.contract_attributes |->
                      IF name \in DOMAIN xml_str.attrib THEN PyStr(xml_str.attrib[name])
                      ELSE None]
        model_object == New(cls, params)
        written == [k \in DOMAIN model_object.d \cup DOMAIN xml_str.attrib |->
                       IF k \in DOMAIN xml_str.attrib THEN PyStr(xml_str.attrib[k])
                       ELSE model_object.d[k]]
        mapped == apply_name_mappings(written,
                                      model_object.contract_attributes \cup DOMAIN written,
                                      hints.maps)
    IN [ret |-> mapped.ret, entity |-> [model_object EXCEPT !.d = mapped.d]]

\* utils.is_empty_string
is_empty_string(value) == value = None \/ Text(value) = ""

\* Service.inspect(fail_fast=True): the first error, None without one.
\* The check of the fields walks the list that Resource.inspect returned
\* (result in the code, errors here), which is empty
Service_inspect(self) ==
    LET errors == << >>
        invalid == {errors[i] : i \in {i \in 1..Len(errors) :
                                         errors[i] \notin {"id", "name", "type", "description"}}}
    IN IF invalid # {} THEN "BadRequest"
       ELSE IF is_empty_string(Resource_getattr(self, "name")) THEN "BadRequest"
       ELSE IF is_empty_string(Resource_getattr(self, "type")) THEN "BadRequest"
       ELSE None

\* result.validate() at the end of Service.from_json and Service.from_xml
Service_validate(parsed) ==
    IF parsed.ret = "ok" /\ Service_inspect(parsed.entity) # None
    THEN [parsed EXCEPT !.ret = Service_inspect(parsed.entity)] ELSE parsed

\* Service.from_json, Tenant.from_json (Resource's), Role.from_json with its
\* check of the keys
from_json(cls, json_str) ==
    IF cls = "Service"
    THEN Service_validate(Resource_from_json(cls, json_str, NoHints, "OS-KSADM:service"))
    ELSE IF cls = "Tenant" THEN Resource_from_json(cls, json_str, NoHints, "tenant")
    ELSE LET loaded == json_loads(json_str)
             role == IF loaded.root = "role" \/ loaded.root = None THEN loaded.body
                     ELSE [k \in {loaded.root} |-> "{...}"]
             invalid == DOMAIN role \ {"id", "name", "description", "serviceId"}
         IN IF invalid # {}
            THEN [ret |-> "BadRequest", entity |-> Role(<< >>)]
            ELSE Resource_from_json(cls, json_str, RoleHints, "role")

\* Service.from_xml, Tenant.from_xml, Role.from_xml
from_xml(cls, xml_str) ==
    IF cls = "Service" THEN Service_validate(Resource_from_xml(cls, xml_str, NoHints))
    ELSE IF cls = "Tenant" THEN Resource_from_xml(cls, xml_str, TenantXmlHints)
    ELSE Resource_from_xml(cls, xml_str, RoleHints)

\* TenantAPI.transpose on the values that create is given: id becomes uid,
\* description desc, and enabled 1 or 0; `in values` is
\* Resource.__contains__, and True == 1 in Python
TenantAPI_transpose(values) ==
    LET renamed(k) == IF k = "id" THEN "uid" ELSE IF k = "description" THEN "desc" ELSE k
    IN [k \in {renamed(h) : h \in DOMAIN values.d} |->
          IF k = "uid" THEN values.d["id"]
          ELSE IF k = "desc" THEN values.d["description"]
          ELSE IF k = "enabled"
          THEN (IF values.d[k] \in {"1", PyStr("true"), PyStr("True"), "True"} THEN "1" ELSE "0")
          ELSE values.d[k]]

\* ---- entities built, rendered, parsed and stored
\* the dict of a set of (key, value) pairs
Dict(pairs) == [k \in {p[1] : p \in pairs} |-> (CHOOSE p \in pairs : p[1] = k)[2]]

\* what a caller can pass for enabled: the texts in several cases, the
\* ints and the booleans
EnabledInputs ==
    {PyStr("true"), PyStr("True"), PyStr("TRUE"), PyStr("false"), PyStr("False"),
     PyStr("1"), PyStr("0"), "1", "0", "True", "False"}

\* keyword arguments of the constructors
TenantKeywords ==
    {Dict({<<"name", PyStr("acme")>>} \cup id \cup enabled \cup extra) :
        id \in {{}, {<<"id", "3">>}},
        enabled \in {{}} \cup {{<<"enabled", v>>} : v \in EnabledInputs},
        extra \in {{}, {<<"dynamic", PyStr("test")>>}}}
ServiceKeywords ==
    {Dict({<<"name", PyStr("nova")>>, <<"type", PyStr("compute")>>} \cup id \cup description) :
        id \in {{}, {<<"id", "1">>}},
        description \in {{}, {<<"description", PyStr("Compute")>>}}}
RoleKeywords ==
    {Dict({<<"name", PyStr("nova:Admin")>>} \cup id \cup service_id \cup tenant_id) :
        id \in {{}, {<<"id", "7">>}},
        service_id \in {{}, {<<"service_id", "1">>}, {<<"service_id", PyStr("s1")>>}},
        tenant_id \in {{}, {<<"tenant_id", PyStr("t1")>>}}}
KeywordsOf(cls) ==
    IF cls = "Service" THEN ServiceKeywords
    ELSE IF cls = "Tenant" THEN TenantKeywords ELSE RoleKeywords

\* the attributes a client can send: the known ones of the class, and one
\* that no class knows
SentAttributes(cls) ==
    LET unknown == {{}, {<<"extra", PyStr("x")>>}} IN
    IF cls = "Service"
    THEN {{<<"name", PyStr("nova")>>} \cup type \cup extra :
             type \in {{}, {<<"type", PyStr("compute")>>}}, extra \in unknown}
    ELSE IF cls = "Tenant"
    THEN {{<<"name", PyStr("acme")>>} \cup enabled \cup extra :
             enabled \in {{}} \cup {{<<"enabled", v>>} : v \in EnabledInputs}, extra \in unknown}
    ELSE {{<<"name", PyStr("nova:Admin")>>} \cup service_id \cup extra :
             service_id \in {{}, {<<"serviceId", PyStr("s1")>>}}, extra \in unknown}

\* the root that the class's to_json writes
RootOf(cls) ==
    IF cls = "Service" THEN "OS-KSADM:service" ELSE IF cls = "Tenant" THEN "tenant" ELSE "role"

\* JSON documents of a client, with and without the root
JsonInputs(cls) ==
    {json_dumps([root |-> root, body |-> Dict(pairs)]) :
        root \in {RootOf(cls), None}, pairs \in SentAttributes(cls)}

\* XML documents of a client: an element with attributes, whose values are
\* text (of the Python values, those that are text)
XmlInputs(cls) ==
    {[tag |-> lower(cls), attrib |-> Dict({<<p[1], Text(p[2])>> : p \in pairs})] :
        pairs \in {ps \in SentAttributes(cls) : \A p \in ps : isinstance_basestring(p[2])}}

Classes == {"Service", "Tenant", "Role"}

\* cls(**kw)
Instantiate(cls, kw) ==
    /\ result' = [op |-> "new", cls |-> cls, at |-> now, ret |-> "ok",
                  sent |-> dict_get(kw, "enabled", None), entity |-> New(cls, kw)]
    /\ UNCHANGED <<now, store, cache, uuid, issued, threads, middleware>>

\* entity.to_json() of the entity just built
ToJson ==
    /\ result.op = "new"
    /\ result' = [op |-> "to_json", at |-> now, ret |-> "ok", entity |-> result.entity,
                  val |-> to_json(result.entity)]
    /\ UNCHANGED <<now, store, cache, uuid, issued, threads, middleware>>

\* cls.from_json(json_str); rendered tells that json_str is what to_json
\* has just returned for an entity of the class, original
FromJson(cls, json_str) ==
    LET parsed == from_json(cls, json_str)
        rendered == /\ result.op = "to_json" /\ result.val = json_str
                    /\ result.entity.cls = cls
    IN
    /\ result' = [op |-> "from_json", cls |-> cls, at |-> now, ret |-> parsed.ret,
                  object |-> json_loads(json_str).body,
                  sent |-> dict_get(json_loads(json_str).body, "enabled", None),
                  entity |-> parsed.entity, val |-> json_str, rendered |-> rendered,
                  original |-> IF rendered THEN result.entity ELSE New(cls, << >>)]
    /\ UNCHANGED <<now, store, cache, uuid, issued, threads, middleware>>

\* cls.from_xml(xml_str)
FromXml(cls, xml_str) ==
    LET parsed == from_xml(cls, xml_str) IN
    /\ result' = [op |-> "from_xml", cls |-> cls, at |-> now, ret |-> parsed.ret,
                  object |-> [k \in DOMAIN xml_str.attrib |-> PyStr(xml_str.attrib[k])],
                  sent |-> IF "enabled" \in DOMAIN xml_str.attrib
                           THEN PyStr(xml_str.attrib["enabled"]) ELSE None,
                  entity |-> parsed.entity, val |-> xml_str]
    /\ UNCHANGED <<now, store, cache, uuid, issued, threads, middleware>>

\* create_tenant's copy of the tenant just built or parsed (dtenant =
\* Tenant(); dtenant.name = tenant.name; ...) and TenantAPI.create's
\* transpose of it
StoreTenant ==
    /\ result.op \in {"new", "from_json", "from_xml"}
    /\ result.ret = "ok"
    /\ result.entity.cls = "Tenant"
    /\ LET tenant == result.entity
           d1 == Resource_setattr(Tenant(<< >>), "name", Resource_getattr(tenant, "name"))
           d2 == Resource_setattr(d1, "description", Resource_getattr(tenant, "description"))
           dtenant == Resource_setattr(d2, "enabled", Resource_getattr(tenant, "enabled"))
       IN result' = [op |-> "transpose", at |-> now, ret |-> "ok", how |-> result.op,
                     sent |-> result.sent, entity |-> tenant,
                     values |-> TenantAPI_transpose(dtenant)]
    /\ UNCHANGED <<now, store, cache, uuid, issued, threads, middleware>>

NextModels ==
    \/ \E cls \in Classes : \E kw \in KeywordsOf(cls) : Instantiate(cls, kw)
    \/ ToJson
    \/ \E cls \in Classes :
          \E json_str \in JsonInputs(cls) \cup (IF result.op = "to_json" THEN {result.val} ELSE {}) :
             FromJson(cls, json_str)
    \/ \E cls \in Classes : \E xml_str \in XmlInputs(cls) : FromXml(cls, xml_str)
    \/ StoreTenant

SpecModels == Init /\ [][NextModels]_vars

\* ------------------------------------------------ the auth middleware
NextMiddleware ==
    \/ \E app \in {None, "app"}, conf \in Confs : Construct(app, conf)
    \/ \E e \in ClientEnvs, validation \in Validations, service \in ServiceAnswers :
          \E catalog_info \in IF "user" \in DOMAIN validation.token_info.access
                              THEN CatalogInfos ELSE {<< >>},
             skipped \in {{}, DOMAIN e \cap ForgedHeaders} :
             Call(e, skipped, validation, catalog_info, service)

SpecMiddleware == Init /\ [][NextMiddleware]_vars

\* ================================================================ claims
AuthOps == {"authenticate", "authenticate_with_unscoped_token", "authenticate_ec2"}

\* the step is a call of one of the authentication flows that returned a token
AuthStep == result'.op \in AuthOps /\ result'.ret = "ok" /\ now' = now

\* C1 as stated: when the same password request succeeds twice in a row and
\* the second call comes less than TTL after the first, the second call
\* returns the first call's token id and writes no token row.
C1_SameTokenWithinTTL ==
    [][(/\ result.op = "authenticate" /\ result.ret = "ok"
        /\ result'.op = "authenticate" /\ result'.ret = "ok"
        /\ result'.username = result.username
        /\ result'.password = result.password
        /\ result'.tenant_id = result.tenant_id
        /\ result'.tenant_name = result.tenant_name
        /\ result'.at < result.at + TTL)
       => (result'.val = result.val /\ tokens' = tokens)]_vars

\* C1 amended: a successful authentication for (user, scope) returns the
\* token id the previous successful authentication for (user, scope)
\* returned, and writes no token row, provided neither row changed in between
\* and the call comes before that token's expires time.
C1_SameTokenWhileUnexpired ==
    [][AuthStep =>
         \A i \in issued :
            (/\ i.user_id = tokens'[result'.val].user_id
             /\ i.tenant_id = tokens'[result'.val].tenant_id
             /\ i.token_id \in DOMAIN tokens
             /\ now < tokens[i.token_id].expires)
            => (result'.val = i.token_id /\ tokens' = tokens)]_vars

\* a password authentication that returned a token written by an earlier call
C1_Reused ==
    /\ result.op = "authenticate" /\ result.ret = "ok"
    /\ tokens[result.val].expires - TTL < result.at

\* C9 as stated: every token row an authentication flow writes belongs to a
\* user that exists and is enabled and, when it has a tenant, to a tenant
\* that exists and is enabled.
C9_TokensOnlyForEnabled ==
    [][\A k \in DOMAIN tokens' \ DOMAIN tokens :
          LET t == tokens'[k] IN
          /\ t.user_id \in DOMAIN users /\ users[t.user_id].enabled
          /\ t.tenant_id # None =>
                t.tenant_id \in DOMAIN tenants /\ tenants[t.tenant_id].enabled]_vars

\* the last request was validate_token(token_id, belongs_to, is_check_token)
Validated == result.op = "validate_token"

\* the token the last validate_token named is stored
ValidatedStored == Validated /\ result.token_id \in DOMAIN tokens

\* C2 as stated: validate_token succeeds only for a stored token whose
\* expires is strictly greater than the time of the call.
C2_AcceptedOnlyBeforeExpires ==
    (Validated /\ result.ret = "ok")
    => (ValidatedStored /\ tokens[result.token_id].expires > result.at)

\* C2 amended: validate_token succeeds only for a stored token whose expires
\* is greater than or equal to the time of the call; a token whose expires is
\* earlier than that time is never accepted.
C2_AcceptedOnlyUntilExpires ==
    (Validated /\ result.ret = "ok")
    => (ValidatedStored /\ tokens[result.token_id].expires >= result.at)

\* validate_token accepted a token at the very time it expires
C2_AcceptedAtExpires ==
    /\ ValidatedStored /\ result.ret = "ok"
    /\ tokens[result.token_id].expires = result.at

\* C3: an empty token id is unauthorized in both flows; a non-empty id that
\* is not stored is unauthorized in the normal flow and not-found in the
\* check-token flow; a stored token whose expires is earlier than the call is
\* forbidden in the normal flow and not-found in the check-token flow.
C3_FaultKinds ==
    Validated =>
      /\ result.token_id \in {None, ""} => result.ret = "Unauthorized"
      /\ (result.token_id \notin {None, ""} /\ ~ ValidatedStored)
            => result.ret = (IF result.is_check_token THEN "ItemNotFound" ELSE "Unauthorized")
      /\ (ValidatedStored /\ tokens[result.token_id].expires < result.at)
            => result.ret = (IF result.is_check_token THEN "ItemNotFound" ELSE "Forbidden")

\* the check-token flow met a stored token that had expired
C3_ExpiredInCheckFlow ==
    /\ ValidatedStored /\ result.is_check_token
    /\ tokens[result.token_id].expires < result.at
    /\ result.ret = "ItemNotFound"

\* C5 as stated: with a belongs_to supplied, validate_token succeeds only if
\* the token's tenant_id equals belongs_to, and a stored, unexpired token
\* whose tenant_id differs (an unscoped token included) is unauthorized.
C5_BelongsToMatches ==
    (ValidatedStored /\ Truthy(result.belongs_to)
       /\ tokens[result.token_id].expires >= result.at)
    => /\ result.ret = "ok" => tokens[result.token_id].tenant_id = result.belongs_to
       /\ tokens[result.token_id].tenant_id # result.belongs_to
             => result.ret = "Unauthorized"

\* x names a tenant row that is not enabled
IsDisabledTenant(x) == Truthy(x) /\ x \in DOMAIN tenants /\ ~ tenants[x].enabled

\* C4: validate_token on a stored, unexpired token whose user is not enabled
\* fails with user-disabled; with the user enabled, it fails with
\* tenant-disabled when the user's default tenant is disabled, and when the
\* token's own tenant is disabled.
C4_DisabledNeverValid ==
    (/\ ValidatedStored
     /\ tokens[result.token_id].expires >= result.at
     /\ tokens[result.token_id].user_id \in DOMAIN users)
    => LET token == tokens[result.token_id]
           user == users[token.user_id]
       IN /\ ~ user.enabled => result.ret = "UserDisabled"
          /\ (user.enabled /\ IsDisabledTenant(user.tenant_id))
                => result.ret = "TenantDisabled"
          /\ (/\ user.enabled
              /\ ~ Truthy(user.tenant_id) \/ user.tenant_id \in DOMAIN tenants
              /\ IsDisabledTenant(token.tenant_id))
                => result.ret = "TenantDisabled"

\* a token of a disabled tenant, whose user has no default tenant, was refused
C4_TokenTenantDisabled ==
    /\ ValidatedStored /\ result.ret = "TenantDisabled"
    /\ tokens[result.token_id].user_id \in DOMAIN users
    /\ users[tokens[result.token_id].user_id].tenant_id = None
    /\ IsDisabledTenant(tokens[result.token_id].tenant_id)

\* the user holds a grant with no tenant for the role of that name
GlobalGrant(user_id, role_name) ==
    \E g \in grants : /\ g.user_id = user_id /\ g.tenant_id = None
                      /\ g.role_id \in DOMAIN roles /\ roles[g.role_id].name = role_name

\* C6: for a valid token, has_admin_role is true exactly when the token's user
\* holds a global grant of the admin role, and has_service_admin_role exactly
\* when the user holds a global grant of the service-admin role or of the
\* admin role; grants scoped to a tenant do not count.
C6_GlobalGrantsOnly ==
    (/\ result.op \in {"has_admin_role", "has_service_admin_role"}
     /\ validate_token(result.token_id, None, FALSE) = "ok")
    => LET user_id == tokens[result.token_id].user_id
           held == IF result.op = "has_admin_role"
                   THEN GlobalGrant(user_id, ADMIN_ROLE_NAME)
                   ELSE \/ GlobalGrant(user_id, SERVICE_ADMIN_ROLE_NAME)
                        \/ GlobalGrant(user_id, ADMIN_ROLE_NAME)
       IN result.ret = (IF held THEN "True" ELSE "False")

\* has_admin_role was false for a user whose admin grant is scoped to a tenant
C6_TenantGrantIgnored ==
    /\ result.op = "has_admin_role" /\ result.ret = "False"
    /\ \E g \in grants : /\ g.user_id = tokens[result.token_id].user_id
                         /\ g.tenant_id # None
                         /\ roles[g.role_id].name = ADMIN_ROLE_NAME

TenantOps == {"create_tenant", "update_tenant", "delete_tenant"}

\* C7: create_tenant, update_tenant and delete_tenant change the store only
\* when the caller's token is valid and its user holds a global grant of the
\* admin role; a valid caller without it (one holding only the service-admin
\* role included) gets unauthorized and the store stays as it was.
C7_TenantWritesNeedAdmin ==
    [][result'.op \in TenantOps =>
         LET valid == validate_token(result'.admin_token, None, FALSE) = "ok"
             admin == /\ valid
                      /\ GlobalGrant(tokens[result'.admin_token].user_id, ADMIN_ROLE_NAME)
         IN /\ store' # store => admin
            /\ (valid /\ ~ admin /\ result' # result)
                  => (result'.ret = "Unauthorized" /\ store' = store)]_vars

\* a caller holding only the service-admin role was refused by create_tenant
C7_ServiceAdminRefused ==
    /\ result.op = "create_tenant" /\ result.ret = "Unauthorized"
    /\ result.admin_token \in DOMAIN tokens
    /\ GlobalGrant(tokens[result.admin_token].user_id, SERVICE_ADMIN_ROLE_NAME)
    /\ ~ GlobalGrant(tokens[result.admin_token].user_id, ADMIN_ROLE_NAME)

\* C8 as stated: every stored token's user_id names a user row and its
\* tenant_id, when it has one, names a tenant row.
C8_TokenReferences ==
    \A k \in DOMAIN tokens :
        /\ tokens[k].user_id \in DOMAIN users
        /\ tokens[k].tenant_id # None => tokens[k].tenant_id \in DOMAIN tenants

Raced(k1, k2) ==
    /\ k1 # k2
    /\ tokens[k1].user_id = tokens[k2].user_id
    /\ tokens[k1].tenant_id = tokens[k2].tenant_id
    /\ tokens[k1].expires <= tokens[k2].expires
    /\ tokens[k2].expires <= tokens[k1].expires + TTL

\* a whole authenticate call that returned a token in this step
LaterAuth ==
    /\ result' # result /\ result'.op = "authenticate" /\ result'.ret = "ok"
    /\ threads' = threads

\* C11: two tokens that interleaved authenticate calls created for the same
\* (user_id, tenant_id) both pass validate_token while unexpired, and every
\* later authenticate for the pair returns a stored token of the pair with
\* the greatest expires and creates no token while that one is unexpired.
C11_RaceOutcome ==
    /\ [](\A k1 \in DOMAIN tokens, k2 \in DOMAIN tokens :
             Raced(k1, k2) =>
                 \A k \in {k1, k2} : now < tokens[k].expires =>
                     validate_token(k, None, FALSE) = "ok")
    /\ [][LaterAuth =>
             \A user \in {tokens'[result'.val].user_id}, scope \in {tokens'[result'.val].tenant_id} :
                 LET rows == {k \in DOMAIN tokens : /\ tokens[k].user_id = user
                                                    /\ tokens[k].tenant_id = scope}
                 IN (\E k \in rows : now < tokens[k].expires) =>
                        /\ tokens' = tokens
                        /\ result'.val \in rows
                        /\ \A j \in rows : tokens[j].expires <= tokens[result'.val].expires]_vars

\* both tokens of a race are stored and unexpired, one was validated, and a
\* later authenticate has just returned one of them
C11_RacedThenReused ==
    /\ \A t \in Threads : threads[t] = Idle
    /\ result.op = "authenticate" /\ result.ret = "ok" /\ result.at = now
    /\ \E k1 \in DOMAIN tokens, k2 \in DOMAIN tokens :
          /\ Raced(k1, k2)
          /\ now < tokens[k1].expires
          /\ result.val = k2
          /\ result.at > tokens[k2].expires - TTL

\* ---------------------------------------------------------------- C12
\* the rows that refer to service s: its templates, the endpoints bound to
\* them, its roles and the grants of those roles
TemplatesOf(s) == {k \in DOMAIN endpoint_templates : endpoint_templates[k].service_id = s}
EndpointsOf(s) == {e \in DOMAIN endpoints : endpoints[e].endpoint_template_id \in TemplatesOf(s)}
RolesOf(s) == {r \in DOMAIN roles : roles[r].service_id = s}
RoleRefsOf(s) == {g \in grants : g.role_id \in RolesOf(s)}

\* C12: when delete_service(s) succeeds, s is no longer stored (get_service
\* answers not-found for an id that is not stored), no template, endpoint,
\* role or grant of s is stored, and every row of the other services is as
\* it was.
C12_DeleteServiceCascades ==
    [][/\ (result'.op = "delete_service" /\ result'.ret = "ok" /\ result' # result) =>
           \A s \in {result'.service_id} :
               /\ s \notin DOMAIN services'
               /\ \A k \in TemplatesOf(s) : k \notin DOMAIN endpoint_templates'
               /\ \A e \in EndpointsOf(s) : e \notin DOMAIN endpoints'
               /\ \A r \in RolesOf(s) : r \notin DOMAIN roles'
               /\ \A g \in RoleRefsOf(s) : g \notin grants'
               /\ TemplatesOf(s)' = {} /\ EndpointsOf(s)' = {}
               /\ RolesOf(s)' = {} /\ RoleRefsOf(s)' = {}
               /\ \A k \in DOMAIN services \ {s} :
                     k \in DOMAIN services' /\ services'[k] = services[k]
               /\ \A k \in DOMAIN endpoint_templates \ TemplatesOf(s) :
                     k \in DOMAIN endpoint_templates' /\ endpoint_templates'[k] = endpoint_templates[k]
               /\ \A e \in DOMAIN endpoints \ EndpointsOf(s) :
                     e \in DOMAIN endpoints' /\ endpoints'[e] = endpoints[e]
               /\ \A r \in DOMAIN roles \ RolesOf(s) :
                     r \in DOMAIN roles' /\ roles'[r] = roles[r]
               /\ grants \ RoleRefsOf(s) \subseteq grants'
       /\ (result'.op = "get_service" /\ result'.service_id \notin DOMAIN services /\
           validate_service_admin_token(result'.admin_token) = "ok") =>
              result'.ret = "ItemNotFound"]_vars

\* delete_service has just removed a service with a template, an endpoint, a
\* role and a grant, while another service keeps a role and its grant
C12_CascadeHappened ==
    /\ result.op = "delete_service" /\ result.ret = "ok"
    /\ result.found.endpoint_templates # {} /\ result.found.endpoints # {}
    /\ result.found.roles # {} /\ result.found.role_refs # {}
    /\ \E k \in DOMAIN services : RolesOf(k) # {} /\ RoleRefsOf(k) # {}

\* ---------------------------------------------------------------- C13
\* the services that were stored and are deleted: keys are not given twice
DeletedServices == {Key("svc", n) : n \in 1..serial["svc"]} \ DOMAIN services

\* C13: whatever requests run between the steps of delete_service(s), once
\* s is deleted no endpoint template, endpoint, role or grant refers to s.
C13_NoReferenceToDeleted ==
    \A s \in DeletedServices :
        /\ TemplatesOf(s) = {} /\ EndpointsOf(s) = {}
        /\ RolesOf(s) = {} /\ RoleRefsOf(s) = {}

\* ---------------------------------------------------------------- C14
\* some user has tenant t as its tenant, or some grant is on tenant t
Referenced(t) ==
    \/ \E u \in DOMAIN users : users[u].tenant_id = t
    \/ \E g \in grants : g.tenant_id = t

\* C14: delete_tenant by an administrator on a stored tenant that a user or
\* a grant refers to fails with forbidden and changes no table; when
\* delete_tenant succeeds the tenant is gone and no user and no grant refers
\* to it.
C14_DeleteTenantGuarded ==
    [][(result'.op = "delete_tenant" /\ result' # result) =>
          \A t \in {result'.tenant_id} :
              /\ ( /\ validate_admin_token(result'.admin_token) = "ok"
                   /\ t \in DOMAIN tenants
                   /\ Referenced(t) ) =>
                     (result'.ret = "Forbidden" /\ UNCHANGED store)
              /\ result'.ret = "ok" =>
                     /\ t \in DOMAIN tenants /\ t \notin DOMAIN tenants'
                     /\ ~ Referenced(t)']_vars

\* delete_tenant was refused for a tenant that only a grant refers to
C14_RefusedForGrant ==
    /\ result.op = "delete_tenant" /\ result.ret = "Forbidden"
    /\ result.tenant_id \in DOMAIN tenants
    /\ ~ \E u \in DOMAIN users : users[u].tenant_id = result.tenant_id
    /\ \E g \in grants : g.tenant_id = result.tenant_id

\* ---------------------------------------------------------------- C15
\* the stored rows of a (user_id, role_id, tenant_id)
RowsOf(user_id, role_id, tenant_id) ==
    {g \in grants : g.user_id = user_id /\ g.role_id = role_id /\ g.tenant_id = tenant_id}

\* C15: add_role_to_user by a service administrator fails with conflict and
\* leaves the grants as they are when the (user_id, role_id, tenant_id) is
\* stored; when it is not stored and the user, the role and the tenant (if
\* one is given) exist, the call succeeds and adds exactly one row, of that
\* triple.
C15_GrantOnce ==
    [][( /\ result'.op = "add_role_to_user" /\ result' # result
         /\ validate_service_admin_token(result'.admin_token) = "ok" ) =>
          \A u \in {result'.user_id}, r \in {result'.role_id}, t \in {result'.tenant_id} :
              /\ RowsOf(u, r, t) # {} => (result'.ret = "RoleConflict" /\ grants' = grants)
              /\ ( /\ RowsOf(u, r, t) = {}
                   /\ u \in DOMAIN users /\ r \in DOMAIN roles
                   /\ t # None => t \in DOMAIN tenants ) =>
                     /\ result'.ret = "ok"
                     /\ grants \subseteq grants'
                     /\ Cardinality(grants') = Cardinality(grants) + 1
                     /\ \A g \in grants' \ grants :
                           g.user_id = u /\ g.role_id = r /\ g.tenant_id = t]_vars

\* a grant on a tenant was refused as a duplicate while the same user and
\* role are not granted globally
C15_DuplicateRefused ==
    /\ result.op = "add_role_to_user" /\ result.ret = "RoleConflict"
    /\ result.tenant_id # None
    /\ RowsOf(result.user_id, result.role_id, result.tenant_id) # {}
    /\ RowsOf(result.user_id, result.role_id, None) = {}

C17_RoleNamesUnique ==
    /\ \A r \in DOMAIN roles, q \in DOMAIN roles : roles[r].name = roles[q].name => r = q
    /\ ( /\ result.op = "create_role"
         /\ validate_service_admin_token(result.admin_token) = "ok"
         /\ \E r \in DOMAIN roles : r # result.val /\ roles[r].name = result.name ) =>
            result.ret = "RoleConflict"

\* ---------------------------------------------------------------- C20
\* C20 as stated: every stored role whose name contains ':' has a service_id
\* that is the id of a stored service whose name is the part of the role name
\* before the first ':', and create_role answers bad-request when that part
\* names no service or differs from the name of the service given by
\* service_id.
C20_PrefixNamesService ==
    /\ \A r \in DOMAIN roles :
          HasColon(roles[r].name) =>
              /\ roles[r].service_id \in DOMAIN services
              /\ services[roles[r].service_id].name = SplitHead(roles[r].name)
    /\ ( /\ result.op = "create_role"
         /\ validate_service_admin_token(result.admin_token) = "ok"
         /\ HasColon(result.name)
         /\ \/ ServiceAPI_get_by_name(SplitHead(result.name)) = None
            \/ /\ result.service_id \in DOMAIN services
               /\ services[result.service_id].name # SplitHead(result.name) ) =>
            result.ret = "BadRequest"

\* ---------------------------------------------------------------- C18
\* another stored tenant (user) than x already has the name
TenantNameTaken(name, x) == \E t \in DOMAIN tenants \ {x} : tenants[t].name = name
UserNameTaken(name, x) == \E u \in DOMAIN users \ {x} : users[u].name = name

\* the request of this step, by an administrator and otherwise well formed,
\* would give a tenant or a user a name that another one has
WouldDuplicate(req) ==
    /\ req.op \in {"create_tenant", "update_tenant", "create_user", "update_user",
                   "create_password_credentials", "update_password_credentials"}
    /\ validate_admin_token(req.admin_token) = "ok"
    /\ \/ req.op = "create_tenant" /\ TenantNameTaken(req.name, None)
       \/ /\ req.op = "update_tenant" /\ req.tenant_id \in DOMAIN tenants
          /\ TenantNameTaken(req.name, req.tenant_id)
       \/ /\ req.op = "create_user" /\ UserNameTaken(req.name, None)
          /\ validate_and_fetch_user_tenant(req.tenant_id) = "ok"
       \/ /\ req.op \in {"update_user", "create_password_credentials",
                         "update_password_credentials"}
          /\ req.user_id \in DOMAIN users
          /\ UserNameTaken(req.name, req.user_id)

\* C18: no two tenants and no two users share a name, and a create_tenant,
\* update_tenant, create_user, update_user, create_password_credentials or
\* update_password_credentials that would introduce a duplicate name fails
\* with conflict and changes no table.
C18_NamesUnique ==
    /\ [](/\ \A t \in DOMAIN tenants : ~ TenantNameTaken(tenants[t].name, t)
          /\ \A u \in DOMAIN users : ~ UserNameTaken(users[u].name, u))
    /\ [][(result' # result /\ WouldDuplicate(result')) =>
             /\ result'.ret \in {"TenantConflict", "UserConflict"}
             /\ UNCHANGED store]_vars

\* a rename through the password credentials was refused: the user has no
\* password yet and the name sent is another user's
C18_RenameRefused ==
    /\ result.op = "create_password_credentials" /\ result.ret = "UserConflict"
    /\ result.user_id \in DOMAIN users
    /\ ~ Truthy(users[result.user_id].password)
    /\ UserNameTaken(result.name, result.user_id)
    /\ Cardinality(DOMAIN tenants) > 1

\* ---------------------------------------------------------------- C19
\* the step answered create_service for a caller who is a service-admin
CreateServiceAnswered ==
    /\ result' # result
    /\ result'.op = "create_service"
    /\ validate_service_admin_token(result'.admin_token) = "ok"

\* the step stored one more service, with the request's name and type and
\* the caller's user id as owner_id, and returned its id
StoredForCaller ==
    /\ result'.ret = "ok"
    /\ result'.val \notin DOMAIN services
    /\ DOMAIN services' = DOMAIN services \cup {result'.val}
    /\ \A s \in DOMAIN services : services'[s] = services[s]
    /\ services'[result'.val] = [name |-> result'.name, type |-> result'.type,
                                 owner_id |-> tokens[result'.admin_token].user_id]

\* the step failed with conflict and changed no table
RefusedAsConflict == result'.ret = "ServiceConflict" /\ UNCHANGED store

\* C19 as stated: create_service by a service-admin succeeds whenever no
\* stored Service has the same (name, type) pair, storing the service with
\* owner_id equal to the caller's user id, and fails with conflict when a
\* Service with that pair exists.
C19_PairUnique ==
    [][CreateServiceAnswered =>
         IF \E s \in DOMAIN services : /\ services[s].name = result'.name
                                       /\ services[s].type = result'.type
         THEN RefusedAsConflict
         ELSE StoredForCaller]_vars

\* C19 amended: create_service by a service-admin succeeds whenever no
\* stored Service has the same name, storing the service with owner_id
\* equal to the caller's user id, and fails with conflict when a Service of
\* that name exists, whatever its type.
C19_NameUnique ==
    [][CreateServiceAnswered =>
         IF \E s \in DOMAIN services : services[s].name = result'.name
         THEN RefusedAsConflict
         ELSE StoredForCaller]_vars

\* create_service was refused for a name that is stored with another type
\* only, while a service created by a service-admin who is not an
\* administrator is stored under that caller's id
C19_RefusedForOtherType ==
    /\ result.op = "create_service" /\ result.ret = "ServiceConflict"
    /\ \E s \in DOMAIN services : services[s].name = result.name
    /\ \A s \in DOMAIN services :
          services[s].name = result.name => services[s].type # result.type
    /\ \E s \in DOMAIN services : services[s].owner_id = "u0"

\* ---------------------------------------------------------------- C21
\* the user holds the admin role: a grant without tenant of a role that has
\* the configured admin name
HoldsAdminRole(user) ==
    \E g \in grants : /\ g.user_id = user /\ g.tenant_id = None
                      /\ g.role_id \in DOMAIN roles
                      /\ roles[g.role_id].name = ADMIN_ROLE_NAME

\* the service that the role of a create_role request is attached to: the
\* one whose id was supplied or, with no id, the one named before the ':'
\* of the role's name; None for a role attached to no stored service
AttachedService(req) ==
    IF req.service_id \in DOMAIN services THEN req.service_id
    ELSE IF req.service_id = None /\ HasColon(req.name)
    THEN ServiceAPI_get_by_name(SplitHead(req.name))
    ELSE None

\* the service whose owner decides about the request of this step, None
\* when the request is not about the role of a stored service
GuardedService(req) ==
    IF req.op = "create_role" THEN AttachedService(req)
    ELSE IF /\ req.op = "delete_role" /\ req.role_id \in DOMAIN roles
            /\ roles[req.role_id].service_id \in DOMAIN services
    THEN roles[req.role_id].service_id
    ELSE None

\* the caller of the request may act on the service
MayActOn(req, s) ==
    /\ req.admin_token \in DOMAIN tokens
    /\ \/ services[s].owner_id = tokens[req.admin_token].user_id
       \/ HoldsAdminRole(tokens[req.admin_token].user_id)

\* C21: create_role for a role attached to a service and delete_role of a
\* role whose service exists succeed only if the caller's user id is the
\* service's owner_id or the caller holds the admin role; otherwise no role
\* and no grant is added or removed, and a caller who is a service-admin
\* sending a request that is well formed gets unauthorized.
C21_OwnerOrAdmin ==
    [][(/\ result' # result
        /\ result'.op \in {"create_role", "delete_role"}
        /\ GuardedService(result') # None
        /\ ~ MayActOn(result', GuardedService(result'))) =>
          /\ result'.ret # "ok"
          /\ UNCHANGED <<roles, grants>>
          /\ (/\ validate_service_admin_token(result'.admin_token) = "ok"
              /\ result'.op = "create_role" =>
                    startswith(result'.name, services[GuardedService(result')].name \o ":"))
             => result'.ret = "Unauthorized"]_vars

\* a service-admin who is neither the owner nor an administrator was refused
\* the deletion of a role that has a grant, and the role and grant are kept
C21_DeleteRefused ==
    /\ result.op = "delete_role" /\ result.ret = "Unauthorized"
    /\ result.admin_token \in DOMAIN tokens
    /\ tokens[result.admin_token].user_id = "u0"
    /\ RoleAPI_ref_get_all_global_roles("u0") # {}
    /\ result.role_id \in DOMAIN roles
    /\ roles[result.role_id].service_id \in DOMAIN services
    /\ services[roles[result.role_id].service_id].owner_id = "ua"
    /\ \E g \in grants : g.role_id = result.role_id

\* ---------------------------------------------------------------- C22
\* C22: once ADMIN_ROLE_ID or SERVICE_ADMIN_ROLE_ID has been published it
\* is never overwritten with a different value, whatever the interleaving
\* of the request threads that run the initialization with each other and
\* with role deletes and creates.
C22_FirstWriterWins ==
    [][/\ ADMIN_ROLE_ID # None => ADMIN_ROLE_ID' = ADMIN_ROLE_ID
       /\ SERVICE_ADMIN_ROLE_ID # None => SERVICE_ADMIN_ROLE_ID' = SERVICE_ADMIN_ROLE_ID]_vars

\* ---------------------------------------------------------------- C23
\* the tenant that an authenticate request names, by name when a name is
\* sent and by id otherwise; None when no stored tenant is named
NamedTenant(req) ==
    IF Truthy(req.tenant_name)
    THEN IF \E t \in DOMAIN tenants : tenants[t].name = req.tenant_name
         THEN CHOOSE t \in DOMAIN tenants : tenants[t].name = req.tenant_name
         ELSE None
    ELSE IF req.tenant_id \in DOMAIN tenants THEN req.tenant_id ELSE None

\* the user is associated with the tenant: it is the user's own tenant or
\* the user holds a grant on it
Associated(u, t) ==
    \/ users[u].tenant_id = t
    \/ \E g \in grants : g.user_id = u /\ g.tenant_id = t

\* the step answered a password authentication that names a tenant
ScopedAuthAnswered ==
    /\ result' # result
    /\ result'.op = "authenticate"
    /\ Truthy(result'.tenant_name) \/ Truthy(result'.tenant_id)

\* a token is issued only if the tenant exists and is enabled, the named
\* user exists, is enabled, is associated with the tenant and the password
\* matches; the token returned is that user's for that tenant
IssuedOnlyIfEntitled ==
    result'.ret = "ok" =>
        LET t == NamedTenant(result') IN
        /\ t # None /\ tenants[t].enabled
        /\ \E u \in DOMAIN users :
              /\ users[u].name = result'.username /\ users[u].enabled
              /\ Associated(u, t)
              /\ users[u].password = result'.password
              /\ result'.val \in DOMAIN tokens'
              /\ tokens'[result'.val].user_id = u
              /\ tokens'[result'.val].tenant_id = t

\* C23 as stated: password authentication with a tenant supplied issues a
\* token only to an entitled caller, and naming a tenant that does not
\* exist, or a tenant the user is not associated with, fails with
\* unauthorized and creates no token.
C23_ScopedAuth ==
    [][ScopedAuthAnswered =>
         /\ IssuedOnlyIfEntitled
         /\ (\/ NamedTenant(result') = None
             \/ \E u \in DOMAIN users : /\ users[u].name = result'.username
                                        /\ ~ Associated(u, NamedTenant(result')))
            => result'.ret = "Unauthorized" /\ tokens' = tokens]_vars

\* C23 amended: the same, with unauthorized for a tenant that does not
\* exist or an enabled tenant the user is not associated with; a disabled
\* tenant fails with tenant-disabled whether or not the user is associated
\* with it, and creates no token either.
C23_ScopedAuthEnabled ==
    [][ScopedAuthAnswered =>
         /\ IssuedOnlyIfEntitled
         /\ (\/ NamedTenant(result') = None
             \/ /\ tenants[NamedTenant(result')].enabled
                /\ \E u \in DOMAIN users : /\ users[u].name = result'.username
                                           /\ ~ Associated(u, NamedTenant(result')))
            => result'.ret = "Unauthorized" /\ tokens' = tokens
         /\ (NamedTenant(result') # None /\ ~ tenants[NamedTenant(result')].enabled)
            => result'.ret = "TenantDisabled" /\ tokens' = tokens]_vars

\* alice, with the right password, was refused for the enabled tenant
\* "other", which she is not associated with, while a token of hers for
\* her own tenant is stored
C23_RefusedOnOtherTenant ==
    /\ result.op = "authenticate" /\ result.ret = "Unauthorized"
    /\ result.username = "alice" /\ result.password = "p"
    /\ result.tenant_name = "other"
    /\ \E t \in DOMAIN tenants :
          /\ tenants[t].name = "other" /\ tenants[t].enabled /\ ~ Associated("u0", t)
    /\ \E k \in DOMAIN tokens : tokens[k].user_id = "u0" /\ tokens[k].tenant_id = "t0"

\* ---------------------------------------------------------------- C24
\* the host with its port stripped: what stands before the last ':'
PortStripped(host) == SubSeq(host, 1, Len(host) - 1)

\* the presented signature is the one recomputed from the secret for the
\* host as transmitted or, for a host that contains a port, for the host
\* with the port stripped
SignatureMatches(secret, signature, host) ==
    \/ signature = Signer_generate(secret, host)
    \/ Len(host) > 1 /\ signature = Signer_generate(secret, PortStripped(host))

\* C24: authenticate_ec2 accepts the request exactly when the signature
\* recomputed from the stored secret equals the presented one for the host
\* as transmitted or, when the host contains a port, for the host with the
\* port stripped; otherwise it fails with unauthorized, and an unknown
\* access key fails with unauthorized.
C24_Ec2Signature ==
    [][(result' # result /\ result'.op = "authenticate_ec2") =>
         IF \A c \in credentials : ~ (c.type = "EC2" /\ c.key = result'.access)
         THEN result'.ret = "Unauthorized"
         ELSE \A c \in {d \in credentials : d.type = "EC2" /\ d.key = result'.access} :
                 IF SignatureMatches(c.secret, result'.signature, result'.host)
                 THEN result'.ret = "ok"
                 ELSE result'.ret = "Unauthorized"]_vars

\* ---------------------------------------------------------------- C25
\* the step answered a password-credentials request of an administrator
\* for a stored user, with a username in it
CredentialsAnswered(op) ==
    /\ result' # result
    /\ result'.op = op
    /\ validate_admin_token(result'.admin_token) = "ok"
    /\ result'.user_id \in DOMAIN users
    /\ Truthy(result'.name)

\* C25: create_password_credentials succeeds only when the user has no
\* password, and otherwise fails with bad-request and changes nothing;
\* update_password_credentials with a username that no other user holds
\* succeeds and renames the user, and with a username held by a different
\* user fails with conflict.
C25_PasswordCredentials ==
    [][/\ CredentialsAnswered("create_password_credentials") =>
            IF Truthy(users[result'.user_id].password)
            THEN result'.ret = "BadRequest" /\ UNCHANGED store
            ELSE TRUE
       /\ CredentialsAnswered("update_password_credentials") =>
            IF UserNameTaken(result'.name, result'.user_id)
            THEN result'.ret = "UserConflict"
            ELSE /\ result'.ret = "ok"
                 /\ users'[result'.user_id].name = result'.name]_vars

\* ---- the middleware's requests
\* the middleware has handled a request
Handled == request # << >>

\* the request carried no token: neither token header, or an empty one
NoToken ==
    LET sent == IF "HTTP_X_AUTH_TOKEN" \in DOMAIN request THEN request["HTTP_X_AUTH_TOKEN"]
                ELSE IF "HTTP_X_STORAGE_TOKEN" \in DOMAIN request
                THEN request["HTTP_X_STORAGE_TOKEN"] ELSE ""
    IN sent = ""

\* the identity service was asked about the token and answered outside 2xx
ValidationRefused == asked.called /\ asked.status \notin 200..299

\* the header the downstream handler reads under the CGI name HTTP_<index>:
\* the WSGI component is handed the environ, the remote service is sent a
\* header named <index>, which its server files under HTTP_<index>
Received(index) ==
    IF downstream.via = "app" THEN dict_get(downstream.headers, "HTTP_" \o index, None)
    ELSE dict_get(downstream.headers, index, None)

\* the challenge that names the identity service
Challenge == <<"WWW-Authenticate", KeystoneUri(protocol.auth_location)>>
Challenged == \E i \in 1..Len(response.headerlist) : response.headerlist[i] = Challenge

\* C26: a request without token, or whose token the identity service
\* refuses with a status outside 2xx, is answered 401 and never reaches the
\* downstream handler when delay_auth_decision is off, with the
\* WWW-Authenticate challenge when there was no token; when
\* delay_auth_decision is on it is forwarded with X-Identity-Status: Invalid.
C26_Unauthenticated ==
    (Handled /\ (NoToken \/ ValidationRefused)) =>
        IF protocol.delay_auth_decision = 0
        THEN /\ response.status = 401
             /\ ~ downstream.called
             /\ NoToken => Challenged
        ELSE /\ downstream.called
             /\ Received("X_IDENTITY_STATUS") = "Invalid"

\* a request without token was answered 401 with the challenge of a
\* configured auth_uri
C26_Rejected ==
    /\ Handled /\ NoToken /\ protocol.delay_auth_decision = 0
    /\ response.status = 401 /\ Challenged /\ ~ downstream.called
    /\ protocol.auth_location = "https://id.example.com:5000"

\* a request with a refused token went downstream marked Invalid
C26_Delayed ==
    /\ Handled /\ ValidationRefused /\ protocol.delay_auth_decision # 0
    /\ downstream.called /\ Received("X_IDENTITY_STATUS") = "Invalid"

\* the identity service confirmed the token of the request
TokenConfirmed == Handled /\ asked.called /\ asked.status \in 200..299

\* the tenant of a validation response: the token's, or the one under user
ResponseTenant(token_info) ==
    IF "tenant" \in DOMAIN token_info.access.token
    THEN token_info.access.token.tenant
    ELSE [id |-> dict_get(token_info.access.user, "tenantId", None),
          name |-> dict_get(token_info.access.user, "tenantName", None)]

\* the role names of a validation response, comma-joined
ResponseRoles(token_info) ==
    LET rs == token_info.access.user.roles
    IN join(",", [i \in 1..Len(rs) |-> rs[i].name])

\* C27: when the identity service confirms the presented token, the
\* downstream handler is called with X-Identity-Status: Confirmed and with
\* X-Tenant-Id, X-Tenant-Name, X-User-Id, X-User-Name and X-Roles equal to
\* the tenant, user and comma-joined role names of the validation response,
\* whatever the client sent under those names.
C27_Confirmed ==
    TokenConfirmed =>
        /\ downstream.called
        /\ Received("X_IDENTITY_STATUS") = "Confirmed"
        /\ Received("X_TENANT_ID") = ResponseTenant(asked.token_info).id
        /\ Received("X_TENANT_NAME") = ResponseTenant(asked.token_info).name
        /\ Received("X_USER_ID") = asked.token_info.access.user.id
        /\ Received("X_USER_NAME") = asked.token_info.access.user.name
        /\ Received("X_ROLES") = ResponseRoles(asked.token_info)

\* a client that sent identity headers of its own making presented a valid
\* token: the downstream handler read the identity service's values
C27_ForgedOverridden ==
    /\ TokenConfirmed /\ downstream.called
    /\ ForgedHeaders \subseteq DOMAIN request
    /\ request["HTTP_X_USER_NAME"] = "forged" /\ request["HTTP_X_ROLES"] = "forged"
    /\ Received("X_IDENTITY_STATUS") = "Confirmed"
    /\ Received("X_USER_NAME") = "alice"
    /\ Received("X_ROLES") = "Admin,Member"

\* the request was forwarded to a remote service
Remote == Handled /\ downstream.called /\ downstream.via = "http"

\* the response carries a header named WWW-Authenticate
HasChallengeHeader ==
    \E i \in 1..Len(response.headerlist) : response.headerlist[i][1] = "WWW-Authenticate"

\* C28: when the middleware forwards to a remote service, the response to
\* the client keeps the downstream status and body; for status 401 or 305
\* it carries WWW-Authenticate: Keystone uri='<auth location>', for any other
\* status no challenge header.
C28_RemoteChallenge ==
    Remote =>
        /\ response.status = downstream.answered.status
        /\ response.body = downstream.answered.body
        /\ IF downstream.answered.status \in {401, 305}
           THEN Challenged ELSE ~ HasChallengeHeader

\* C29: on successful validation the deprecated X-User header carries the
\* user's name, as X-User-Name does, and the deprecated X-Role header
\* carries the value of X-Roles.
C29_DeprecatedHeaders ==
    TokenConfirmed =>
        /\ downstream.called
        /\ Received("X_USER") = asked.token_info.access.user.name
        /\ Received("X_USER") = Received("X_USER_NAME")
        /\ Received("X_ROLE") = Received("X_ROLES")

\* ---- pages
\* the last request listed all tenants: tenants is the collection it paged
PageAnswered ==
    result.op = "get_tenants" /\ result.ret = "ok" /\ ~ result.is_service_operation

\* the page reaches the last entity of the id-descending ordering: the
\* tenant with the least id is on the page, so none remains after it; an
\* empty page has nothing after it
ReachesLast ==
    \/ Len(result.values) = 0
    \/ \A t \in DOMAIN tenants :
          (\A u \in DOMAIN tenants : Rank(t) <= Rank(u)) =>
              \E i \in 1..Len(result.values) : result.values[i] = t

\* C30: get_page_markers returns (null, null) for an empty collection and
\* prev = null for a null marker, and next = null exactly when the page that
\* get_page returns for the same marker and limit reaches the last entity
\* of the id-descending ordering (a marker being null or the id of a stored
\* entity).
C30_PageMarkers ==
    PageAnswered =>
        /\ DOMAIN tenants = {} => result.prev = None /\ result.next = None
        /\ result.marker = None => result.prev = None
        /\ (result.marker = None \/ result.marker \in DOMAIN tenants) =>
              ((result.next = None) <=> ReachesLast)

\* a client walked the pages of all tenants: the trail of its answers
Walked == result.op = "get_tenants" /\ result.ret = "ok" /\ ~ result.is_service_operation

\* the last three answers of the trail are a page, the page its next marker
\* led to, and the page the prev marker of that one led to
ForthAndBack ==
    /\ Walked /\ Len(result.trail) >= 3
    /\ LET k == Len(result.trail) IN
       /\ result.trail[k - 2].next # None
       /\ result.trail[k - 1].marker = result.trail[k - 2].next
       /\ result.trail[k].marker = result.trail[k - 1].prev

\* C31: when get_page_markers(m, L) returns a next marker n, get_page with
\* the prev marker of get_page_markers(n, L) returns the entities of
\* get_page(m, L).
C31_BackToPage ==
    ForthAndBack =>
        result.trail[Len(result.trail)].values = result.trail[Len(result.trail) - 2].values

\* a client went forward from a stored marker and back by a prev marker that
\* is not null
C31_WentBack ==
    /\ ForthAndBack
    /\ result.trail[Len(result.trail) - 2].marker # None
    /\ result.trail[Len(result.trail)].marker # None
    /\ Len(result.values) > 0

\* the trail is a walk forward from a null marker, each request made with
\* the next marker of the answer before it
WalkForward ==
    /\ Walked
    /\ result.trail[1].marker = None
    /\ \A i \in 2..Len(result.trail) :
          /\ result.trail[i - 1].next # None
          /\ result.trail[i].marker = result.trail[i - 1].next

\* the pages of the trail, one after another
RECURSIVE Pages(_)
Pages(trail) == IF Len(trail) = 0 THEN << >> ELSE trail[1].values \o Pages(Tail(trail))

\* C36: a walk from a null marker that follows the next markers, with one
\* limit on an unchanging collection, ends with next = null, and its pages
\* together hold every entity of the collection exactly once.
C36_WalkCoversAll ==
    (WalkForward /\ result.next = None) =>
        LET seen == Pages(result.trail) IN
        /\ \A t \in DOMAIN tenants : \E i \in 1..Len(seen) : seen[i] = t
        /\ \A i, j \in 1..Len(seen) : seen[i] = seen[j] => i = j

\* ---- the tenants of a user
\* a user listed its tenants
UserPageAnswered ==
    result.op = "get_tenants" /\ result.ret = "ok" /\ result.is_service_operation

\* the tenants on which the user holds a grant, and the user's own tenant
UserTenants(user_id) ==
    {t \in DOMAIN tenants : \/ \E g \in grants : g.user_id = user_id /\ g.tenant_id = t
                            \/ users[user_id].tenant_id = t}

\* C35: tenants_for_user_get_page_markers returns the pair that the rules
\* of get_page_markers give for the tenants of the user, and get_tenants
\* takes the markers from the rows it takes the page from.
C35_UserMarkers ==
    UserPageAnswered =>
        /\ result.marked = result.paged
        /\ [prev |-> result.prev, next |-> result.next]
              = get_page_markers(UserTenants(tokens[result.admin_token].user_id),
                                 result.marker, result.limit)

\* ---------------------------------------------------------------- C39
\* the caller of the token passes validate_service_admin_token and is neither
\* the owner of service s nor a holder of the admin role
Outsider(token_id, s) ==
    /\ token_id \in DOMAIN tokens
    /\ validate_service_admin_token(token_id) = "ok"
    /\ services[s].owner_id # tokens[token_id].user_id
    /\ ~ HoldsAdminRole(tokens[token_id].user_id)

\* C39: no request of a caller who holds the service-admin role but neither
\* owns service S nor holds the admin role removes a role attached to S, a
\* grant of such a role or an endpoint template of S; since every single
\* request of such a caller leaves these rows in place, so does every
\* sequence of them.
C39_OutsiderRemovesNothing ==
    [][\A s \in DOMAIN services :
          (/\ result' # result
           /\ "admin_token" \in DOMAIN result'
           /\ Outsider(result'.admin_token, s)) =>
             /\ RolesOf(s) \subseteq DOMAIN roles'
             /\ RoleRefsOf(s) \subseteq grants'
             /\ TemplatesOf(s) \subseteq DOMAIN endpoint_templates']_vars

\* the same for delete_role and delete_endpoint_template alone
C39_GuardedDeletes ==
    [][\A s \in DOMAIN services :
          (/\ result' # result
           /\ result'.op \in {"delete_role", "delete_endpoint_template"}
           /\ Outsider(result'.admin_token, s)) =>
             /\ result'.ret = "ok" =>
                   /\ RolesOf(s) \subseteq DOMAIN roles'
                   /\ RoleRefsOf(s) \subseteq grants'
                   /\ TemplatesOf(s) \subseteq DOMAIN endpoint_templates'
             /\ result'.ret # "ok" => UNCHANGED <<roles, grants, endpoint_templates>>]_vars

\* a service-admin who neither owns the service nor is an administrator has
\* deleted a service that had a role with a grant and an endpoint template
C39_OutsiderDeletedService ==
    /\ result.op = "delete_service" /\ result.ret = "ok"
    /\ tokens[result.admin_token].user_id = "u0"
    /\ ~ HoldsAdminRole("u0")
    /\ result.found.roles # {}
    /\ result.found.role_refs # {}
    /\ result.found.endpoint_templates # {}

\* ---------------------------------------------------------------- C40
\* the tenant that a request of authenticate_with_unscoped_token asks for:
\* the one of the name when a name is sent, else the id sent
RequestedTenant(req) ==
    IF Truthy(req.tenant_name) THEN TenantAPI_get_by_name(req.tenant_name)
    ELSE TenantAPI_get(req.tenant_id)

\* C40: authenticate_with_unscoped_token takes every token that
\* validate_token accepts, scoped or not; when a tenant is asked for it
\* returns a token of the token's user for that tenant, new or stored, if the
\* tenant exists, is enabled and the user is associated with it, and
\* otherwise fails with unauthorized or tenant-disabled and stores no token.
C40_TokenForRequestedTenant ==
    [][(/\ result' # result
        /\ result'.op = "authenticate_with_unscoped_token"
        /\ validate_token(result'.token_id, None, FALSE) = "ok"
        /\ Truthy(result'.tenant_id) \/ Truthy(result'.tenant_name)) =>
          LET user_id == tokens[result'.token_id].user_id
              dtenant == RequestedTenant(result')
          IN IF /\ dtenant # None
                /\ tenants[dtenant].enabled
                /\ Associated(user_id, dtenant)
             THEN /\ result'.ret = "ok"
                  /\ result'.val \in DOMAIN tokens'
                  /\ tokens'[result'.val].user_id = user_id
                  /\ tokens'[result'.val].tenant_id = dtenant
                  /\ \A k \in DOMAIN tokens : tokens'[k] = tokens[k]
                  /\ DOMAIN tokens' \subseteq DOMAIN tokens \cup {result'.val}
             ELSE /\ result'.ret \in {"Unauthorized", "TenantDisabled"}
                  /\ result'.val = None
                  /\ tokens' = tokens]_vars

\* a token scoped to a tenant was presented and a token for the tenant asked
\* for came back
C40_ScopedTokenAccepted ==
    /\ result.op = "authenticate_with_unscoped_token" /\ result.ret = "ok"
    /\ tokens[result.token_id].tenant_id # None
    /\ Truthy(result.tenant_id) \/ Truthy(result.tenant_name)
    /\ tokens[result.val].tenant_id # None

\* ---------------------------------------------------------------- C37
\* C37: whenever a request is forwarded, the X-Identity-Status that the
\* downstream handler reads is one the middleware wrote during that
\* request: Confirmed if the identity service answered the validation of
\* the token with 2xx and Invalid otherwise; what the client sent under
\* that name does not decide it.
C37_StatusWritten ==
    (Handled /\ downstream.called) =>
        /\ Received("X_IDENTITY_STATUS") \in {"Confirmed", "Invalid"}
        /\ Received("X_IDENTITY_STATUS") = "Confirmed" =>
              asked.called /\ asked.status \in 200..299
        /\ Received("X_IDENTITY_STATUS") = "Invalid" =>
              /\ ~ TokenConfirmed
              /\ protocol.delay_auth_decision # 0

\* a client sent X-Identity-Status: Confirmed with a token that the identity
\* service refused, and the downstream handler read Invalid
C37_ForgedStatusReplaced ==
    /\ Handled /\ ValidationRefused /\ downstream.called
    /\ dict_get(request, "HTTP_X_IDENTITY_STATUS", None) = "Confirmed"
    /\ Received("X_IDENTITY_STATUS") = "Invalid"

\* ---------------------------------------------------------------- C38
\* the identity headers, by the names _decorate_request is given
IdentityHeaders ==
    {"X_AUTHORIZATION", "X_TENANT_ID", "X_TENANT_NAME", "X_USER_ID", "X_USER_NAME",
     "X_ROLES", "X_TENANT", "X_USER", "X_ROLE", "X_CAPABILITIES"}

\* the downstream handler reads, under the identity header, the value the
\* client sent under it
ClientValueReceived(index) ==
    /\ "HTTP_" \o index \in DOMAIN request
    /\ Received(index) = request["HTTP_" \o index]

\* C38: no identity header that reaches the downstream handler carries the
\* value the client sent under it; in particular a request forwarded with
\* X-Identity-Status: Invalid under delay_auth_decision carries no identity
\* header of the client's making.
C38_NoClientIdentity ==
    (Handled /\ downstream.called) =>
        \A index \in IdentityHeaders : ~ ClientValueReceived(index)

\* ---------------------------------------------------------------- C32
\* a document was parsed that carries an attribute outside every known
\* field set
UnknownSent ==
    /\ result.op \in {"from_json", "from_xml"}
    /\ "extra" \in DOMAIN result.object

\* C32: parsing a Service or a Role from JSON or XML with an attribute
\* outside the known field set fails with bad-request; the same attribute on
\* a Tenant is accepted and kept on the resulting entity.
C32_UnknownAttributes ==
    UnknownSent =>
        IF result.cls \in {"Service", "Role"}
        THEN result.ret = "BadRequest"
        ELSE /\ result.ret = "ok"
             /\ "extra" \in DOMAIN result.entity.d
             /\ result.entity.d["extra"] = result.object["extra"]

\* ---------------------------------------------------------------- C33
\* the value sent for enabled is one of the forms of true: the text true
\* in any letter case, the text 1, the int 1, the boolean true
TrueForm(v) == lower(Text(v)) \in {"true", "1"}

\* C33: for every enabled input among "true", "false", "1", "0", 1, 0, true
\* and false, in any letter case, a Tenant built or parsed with it and
\* stored through TenantAPI.transpose has enabled = 1 for the forms of true
\* and enabled = 0 for the forms of false.
C33_EnabledCoerced ==
    (result.op = "transpose" /\ result.sent \in EnabledInputs) =>
        (result.values["enabled"] = "1" <=> TrueForm(result.sent))

\* ---------------------------------------------------------------- C34
\* JSON that to_json made of an entity was parsed
ParsedBack == result.op = "from_json" /\ result.rendered

\* C34: for Tenant, Role and Service, parsing the JSON that to_json produces
\* gives an entity with the same value for every non-null field of the
\* original, Role.service_id and Role.tenant_id travelling as serviceId and
\* tenantId.
C34_JsonRoundTrip ==
    ParsedBack =>
        /\ result.ret = "ok"
        /\ \A name \in DOMAIN result.original.d :
              result.original.d[name] # None =>
                  Resource_getattr(result.entity, name) = result.original.d[name]
        /\ \A outside \in DOMAIN RoleMaps :
              (result.cls = "Role" /\ result.original.d[RoleMaps[outside]] # None) =>
                  /\ outside \in DOMAIN result.val.body
                  /\ json_loads_value(result.val.body[outside]) =
                        result.original.d[RoleMaps[outside]]
====
